---- MODULE Spec2Model ----
(***************************************************************************)
(* Model of the estimation engine of the Function Point calculator:        *)
(* lib/calculations.ts (calculateFunctionPoints, calculateCocomoII,        *)
(* calculateMAE, calculateRMSE, calculateR2Score) with the tables of       *)
(* lib/constants.ts.                                                       *)
(*                                                                         *)
(* JavaScript numbers are modelled as records.  In the two calculators a   *)
(* finite number is a decimal fixed-point value with six fractional digits *)
(* (v counts millionths), and NaN and the two infinities are values of     *)
(* their own.  In the accuracy metrics a number is an IEEE 754 double with *)
(* its 53-bit significand, and every operation rounds as the hardware      *)
(* does.                                                                   *)
(*                                                                         *)
(* Around the engine, the pages that use it: the forms of the FP           *)
(* calculator, the COCOMO estimator and the document analyzer, which save  *)
(* results to the calculation history, the history page, where actual      *)
(* values are attached to entries and entries are deleted, and the         *)
(* comparison page, which derives the accuracy series from the history.    *)
(***************************************************************************)
EXTENDS Integers, Sequences, FiniteSets, TLC

VARIABLES
    op,             \* the function under call: "fp", "cocomo" or "metrics"
    pc,             \* "call" before the function has run, "done" after it returned
    fpInputs,       \* argument fpInputs of calculateFunctionPoints
    gscInputs,      \* argument gscInputs of calculateFunctionPoints
    fpResult,       \* value returned by calculateFunctionPoints
    cocomoInputs,   \* argument inputs of calculateCocomoII
    cocomoResult,   \* value returned by calculateCocomoII
    locals,         \* the local variables of the calculator at its return
    data,           \* argument data of the accuracy metrics
    metrics,        \* values returned by calculateMAE, calculateRMSE, calculateR2Score
    now,            \* Date.now(), in milliseconds
    page,           \* the page on screen
    history,        \* the stored value of 'calculationHistory'
    formValues,     \* FpCalculatorForm, CocomoForm: form, the values of the fields
    formHistory,    \* FpCalculatorForm, FileUploadForm: history, the list each form holds
    fpFormResult,   \* FpCalculatorForm: result
    cocomoFormResult,           \* CocomoForm: result
    analysisResult,             \* FileUploadForm: analysisResult
    currentFileName,            \* FileUploadForm: currentFileName (fileName before)
    file,                       \* FileUploadForm.onSubmit: file, the file under analysis
    isLoading,                  \* FileUploadForm: isLoading
    error,                      \* FileUploadForm: error
    actualsInput,               \* HistoryList: actualsInput
    isClient,                   \* HistoryList, ComparisonPage: isClient
    afpTrendData,               \* ComparisonPage: the state of the same name
    cocomoEffortTrendData,
    afpAccuracyData,
    cocomoEffortAccuracyData,
    afpAccuracyMetrics,
    cocomoAccuracyMetrics

vars == <<op, pc, fpInputs, gscInputs, fpResult, cocomoInputs, cocomoResult, locals,
          data, metrics, now, page, history, formValues, formHistory, fpFormResult,
          cocomoFormResult,
          analysisResult, currentFileName, file, isLoading, error, actualsInput, isClient,
          afpTrendData,
          cocomoEffortTrendData, afpAccuracyData, cocomoEffortAccuracyData,
          afpAccuracyMetrics, cocomoAccuracyMetrics>>

(***************************************************************************)
(* Bounds of the model.                                                    *)
(***************************************************************************)
MaxCount == 10      \* largest component count tried
MaxKsloc == 4       \* largest size tried besides the form's default, in KSLOC
MaxLen == 4         \* longest list of accuracy data points
MaxVal == 2         \* largest estimated / actual value of a data point, in tenths
MaxEntries == 2     \* most entries the history holds
MaxClock == 2       \* last millisecond of the clock
MaxFineLen == 3     \* longest list of data points written in thousandths

(***************************************************************************)
(* Numbers.                                                                *)
(***************************************************************************)
Limb == 10^3
Scale == Limb * Limb                \* units per 1.0
Cent == Scale \div 100              \* units per 0.01

Fin(x) == [t |-> "num", v |-> x]
NaN == [t |-> "NaN", v |-> 0]
PosInf == [t |-> "Infinity", v |-> 1]
NegInf == [t |-> "Infinity", v |-> -1]

IsFin(a) == a.t = "num"
IsNaN(a) == a.t = "NaN"
IsInf(a) == a.t = "Infinity"

Num(n) == Fin(n * Scale)            \* the integer n
Centi(c) == Fin(c * Cent)           \* the decimal c / 100
Zero == Num(0)

Abs(x) == IF x < 0 THEN -x ELSE x
Sgn(x) == IF x < 0 THEN -1 ELSE IF x > 0 THEN 1 ELSE 0
SignOf(a) == Sgn(a.v)               \* sign of a finite or infinite number

\* floor(a * b / Limb^2) for naturals a, b, computed limb by limb so that no
\* intermediate product leaves the 32-bit range
MulLimbs(a, b, L) ==
    LET a1 == a \div L
        a0 == a % L
        b1 == b \div L
        b0 == b % L
        X == a1 * b0
        Y == a0 * b1
        Z == a0 * b0
    IN  a1 * b1 + X \div L + Y \div L + ((X % L) + (Y % L) + Z \div L) \div L

\* a + b
NAdd(a, b) ==
    IF IsNaN(a) \/ IsNaN(b) THEN NaN
    ELSE IF IsInf(a) /\ IsInf(b) THEN (IF a.v = b.v THEN a ELSE NaN)
    ELSE IF IsInf(a) THEN a
    ELSE IF IsInf(b) THEN b
    ELSE Fin(a.v + b.v)

\* -a
NNeg(a) == IF IsNaN(a) THEN NaN ELSE [a EXCEPT !.v = -a.v]

\* a - b
NSub(a, b) == NAdd(a, NNeg(b))

\* a * b
NMul(a, b) ==
    IF IsNaN(a) \/ IsNaN(b) THEN NaN
    ELSE IF IsInf(a) \/ IsInf(b)
         THEN (IF SignOf(a) * SignOf(b) = 0 THEN NaN
               ELSE IF SignOf(a) * SignOf(b) > 0 THEN PosInf ELSE NegInf)
    ELSE Fin(Sgn(a.v) * Sgn(b.v) * MulLimbs(Abs(a.v), Abs(b.v), Limb))

\* parseFloat(x.toFixed(2)): x rounded to two decimals, a tie going away from zero
ToFixed2(a) ==
    IF ~IsFin(a) THEN a
    ELSE Fin(Sgn(a.v) * ((Abs(a.v) + Cent \div 2) \div Cent) * Cent)

(***************************************************************************)
(* Math.pow.  A positive base x is written 2^k * m with m in [1,2); the    *)
(* binary logarithm of m is read off bit by bit by repeated squaring,      *)
(* y * log2(x) is split into an integer n and a fraction f, and            *)
(* 2^f = exp(f * ln 2) is summed from its power series.  The intermediate  *)
(* values carry eight fractional digits; the result is within 10^-6        *)
(* (relative, for results above 1) of the mathematical power.              *)
(***************************************************************************)
Limb8 == 10^4
Scale8 == Limb8 * Limb8             \* units per 1.0 inside Pow
Ln2Scaled == 69314718               \* ln 2 in units of 10^-8

Mul8(a, b) == MulLimbs(a, b, Limb8)

RECURSIVE BinaryExponent(_, _)
\* the k with 2^k <= x / Scale < 2^(k+1), for x > 0
BinaryExponent(x, k) ==
    IF x >= 2 * Scale THEN BinaryExponent(x \div 2, k + 1)
    ELSE IF x < Scale THEN BinaryExponent(x * 2, k - 1)
    ELSE k

\* x / 2^k in units of 10^-8
Mantissa8(x, k) ==
    IF k >= 0
    THEN (x \div (2^k)) * 100 + ((x % (2^k)) * 100) \div (2^k)
    ELSE x * (2^(-k)) * 100

RECURSIVE Log2Frac(_, _)
\* log2(m) for m in [1,2), in units of 10^-8, to 27 fraction bits
Log2Frac(m, i) ==
    IF i > 27 THEN 0
    ELSE LET sq == Mul8(m, m)
         IN  IF sq >= 2 * Scale8
             THEN (Scale8 + Log2Frac(sq \div 2, i + 1)) \div 2
             ELSE Log2Frac(sq, i + 1) \div 2

RECURSIVE ExpSeries(_, _, _)
\* term + term * r / k + term * r^2 / (k (k+1)) + ...
ExpSeries(r, term, k) ==
    IF term = 0 THEN 0
    ELSE term + ExpSeries(r, Mul8(term, r) \div k, k + 1)

\* x^y for finite x > 0 and finite y, both in units of 10^-6
PowPositive(x, y) ==
    LET k == BinaryExponent(x, 0)
        lg == k * Scale8 + Log2Frac(Mantissa8(x, k), 1)
        t == Sgn(lg) * Sgn(y) * MulLimbs(Abs(lg), Abs(y), Limb)
        n == t \div Scale8
        f == t % Scale8
        e == ExpSeries(Mul8(f, Ln2Scaled), Scale8, 1)
    IN  IF n >= 0
        THEN (e \div 100) * (2^n) + ((e % 100) * (2^n) + 50) \div 100
        ELSE ((e \div (2^(-n))) + 50) \div 100

IsInteger(a) == IsFin(a) /\ a.v % Scale = 0
IsOddInteger(a) == IsInteger(a) /\ (a.v \div Scale) % 2 = 1

\* Math.pow(a, b)
Pow(a, b) ==
    IF IsNaN(b) THEN NaN
    ELSE IF IsFin(b) /\ b.v = 0 THEN Num(1)
    ELSE IF IsNaN(a) THEN NaN
    ELSE IF IsInf(b)
         THEN (IF IsFin(a) /\ Abs(a.v) = Scale THEN NaN
               ELSE IF (IsInf(a) \/ Abs(a.v) > Scale) = (b.v > 0) THEN PosInf
               ELSE Zero)
    ELSE IF IsInf(a)
         THEN (IF b.v < 0 THEN Zero
               ELSE IF a.v < 0 /\ IsOddInteger(b) THEN NegInf ELSE PosInf)
    ELSE IF a.v = 0 THEN (IF b.v > 0 THEN Zero ELSE PosInf)
    ELSE IF a.v > 0 THEN Fin(PowPositive(a.v, b.v))
    ELSE IF ~IsInteger(b) THEN NaN
    ELSE IF IsOddInteger(b) THEN Fin(-PowPositive(-a.v, b.v))
    ELSE Fin(PowPositive(-a.v, b.v))

(***************************************************************************)
(* lib/constants.ts                                                        *)
(***************************************************************************)
GSC_FACTORS ==
    << "dataCommunications", "distributedDataProcessing", "performance",
       "heavilyUsedConfiguration", "transactionRate", "onlineDataEntry",
       "endUserEfficiency", "onlineUpdate", "complexProcessing", "reusability",
       "installationEase", "operationalEase", "multipleSites", "facilitateChange" >>

GscIds == {GSC_FACTORS[i] : i \in 1..Len(GSC_FACTORS)}

\* id and the values of the six levels Very Low .. Extra High, in hundredths
COCOMO_SCALE_FACTORS ==
    << [id |-> "PREC", values |-> <<620, 496, 372, 248, 124, 0>>],
       [id |-> "FLEX", values |-> <<507, 405, 304, 203, 101, 0>>],
       [id |-> "RESL", values |-> <<707, 565, 424, 283, 141, 0>>],
       [id |-> "TEAM", values |-> <<548, 438, 329, 219, 110, 0>>],
       [id |-> "PMAT", values |-> <<780, 624, 468, 312, 156, 0>>] >>

SIMPLE_WEIGHTS == [ei |-> Num(4), eo |-> Num(5), eq |-> Num(4), ilf |-> Num(10), eif |-> Num(7)]

COCOMO_A == Centi(294)
\* the base exponent of the COCOMO II.1997 calibration
BaseExponentOf1997 == Centi(101)

COCOMO_BASE_EXPONENT == Centi(91)

(***************************************************************************)
(* calculateFunctionPoints                                                 *)
(***************************************************************************)
\* gscInputs[id] || 0: a missing id, 0 and NaN are falsy and give 0
RatingOrZero(gsc, id) ==
    IF id \notin DOMAIN gsc THEN Zero
    ELSE IF IsNaN(gsc[id]) \/ (IsFin(gsc[id]) /\ gsc[id].v = 0) THEN Zero
    ELSE gsc[id]

RECURSIVE TdiLoop(_, _, _)
\* GSC_FACTORS.forEach(factor => tdi += gscInputs[factor.id] || 0) from factor i on
TdiLoop(gsc, i, tdi) ==
    IF i > Len(GSC_FACTORS) THEN tdi
    ELSE TdiLoop(gsc, i + 1, NAdd(tdi, RatingOrZero(gsc, GSC_FACTORS[i])))

\* the loop stopping one factor early
TdiWithoutLastFactor(gsc) ==
    NSub(TdiLoop(gsc, 1, Zero), RatingOrZero(gsc, GSC_FACTORS[Len(GSC_FACTORS)]))

Tdi(gsc) == TdiLoop(gsc, 1, Zero)

\* the weights of ilf and eif exchanged
UfpWeightsExchanged(fp) ==
    NAdd(NAdd(NAdd(NAdd(NMul(fp.ei, SIMPLE_WEIGHTS.ei),
                        NMul(fp.eo, SIMPLE_WEIGHTS.eo)),
                   NMul(fp.eq, SIMPLE_WEIGHTS.eq)),
              NMul(fp.ilf, SIMPLE_WEIGHTS.eif)),
         NMul(fp.eif, SIMPLE_WEIGHTS.ilf))

Ufp(fp) ==
    NAdd(NAdd(NAdd(NAdd(NMul(fp.ei, SIMPLE_WEIGHTS.ei),
                        NMul(fp.eo, SIMPLE_WEIGHTS.eo)),
                   NMul(fp.eq, SIMPLE_WEIGHTS.eq)),
              NMul(fp.ilf, SIMPLE_WEIGHTS.ilf)),
         NMul(fp.eif, SIMPLE_WEIGHTS.eif))

Vaf(gsc) == NAdd(Centi(65), NMul(Centi(1), Tdi(gsc)))

\* the adjustment applied without its base 0.65
AfpWithoutBase(fp, gsc) == NMul(Ufp(fp), NMul(Centi(1), Tdi(gsc)))

Afp(fp, gsc) == NMul(Ufp(fp), Vaf(gsc))

\* the local variables ufp, tdi, vaf, afp
FpLocals(fp, gsc) ==
    [ufp |-> Ufp(fp), tdi |-> Tdi(gsc), vaf |-> Vaf(gsc), afp |-> Afp(fp, gsc)]

\* a calculator that echoes the ratings it used instead of the ones it was given
calculateFunctionPointsEchoingUsed(fp, gsc) ==
    [ufp |-> ToFixed2(Ufp(fp)),
     vaf |-> ToFixed2(Vaf(gsc)),
     afp |-> ToFixed2(Afp(fp, gsc)),
     inputs |-> fp,
     gsc |-> [id \in GscIds |-> RatingOrZero(gsc, id)]]

calculateFunctionPoints(fp, gsc) ==
    [ufp |-> ToFixed2(Ufp(fp)),
     vaf |-> ToFixed2(Vaf(gsc)),
     afp |-> ToFixed2(Afp(fp, gsc)),
     inputs |-> fp,
     gsc |-> gsc]

(***************************************************************************)
(* calculateCocomoII.  inputs.scaleFactors is an object: its entries are   *)
(* kept in insertion order, as a sequence of [id, value] with distinct     *)
(* ids, the order in which for-in visits them.                             *)
(***************************************************************************)
RECURSIVE SumLoop(_, _, _)
\* for (const factorId in scaleFactors) sum += scaleFactors[factorId], from entry i on
SumLoop(sf, i, sum) ==
    IF i > Len(sf) THEN sum
    ELSE SumLoop(sf, i + 1, NAdd(sum, sf[i].value))

RECURSIVE KnownSumLoop(_, _, _)
KnownSumLoop(sf, i, sum) ==
    IF i > Len(sf) THEN sum
    ELSE KnownSumLoop(sf, i + 1,
            IF \E k \in 1..Len(COCOMO_SCALE_FACTORS) : COCOMO_SCALE_FACTORS[k].id = sf[i].id
            THEN NAdd(sum, sf[i].value) ELSE sum)

\* the loop restricted to the five ids of COCOMO_SCALE_FACTORS
SumOfKnownSFExponents(scaleFactors) == KnownSumLoop(scaleFactors, 1, Zero)

SumOfSFExponents(scaleFactors) == SumLoop(scaleFactors, 1, Zero)

\* B = COCOMO_BASE_EXPONENT + 0.01 * sumOfSFExponents
ExponentB(sum) == NAdd(COCOMO_BASE_EXPONENT, NMul(Centi(1), sum))

EAF == Num(1)

\* effort = COCOMO_A * Math.pow(ksloc, B) * EAF
Effort(ksloc, B) == NMul(NMul(COCOMO_A, Pow(ksloc, B)), EAF)

CocomoC == Centi(367)

\* F = 0.28 + 0.2 * (B - COCOMO_BASE_EXPONENT)
ExponentF(B) == NAdd(Centi(28), NMul(Centi(20), NSub(B, COCOMO_BASE_EXPONENT)))

\* devTime taken from the effort as it is returned, rounded to two decimals
DevTimeFromRoundedEffort(effort, F) == NMul(CocomoC, Pow(ToFixed2(effort), F))

\* devTime = C * Math.pow(effort, F)
DevTime(effort, F) == NMul(CocomoC, Pow(effort, F))

\* the local variables sumOfSFExponents, B, effort, F, devTime
CocomoLocals(inputs) ==
    LET sum == SumOfSFExponents(inputs.scaleFactors)
        B == ExponentB(sum)
        effort == Effort(inputs.ksloc, B)
        F == ExponentF(B)
    IN  [sumOfSFExponents |-> sum, B |-> B, effort |-> effort, F |-> F,
         devTime |-> DevTime(effort, F)]

\* a calculator that answers NaN for ksloc <= 0 and for an empty scaleFactors
calculateCocomoIIRejecting(inputs) ==
    LET l == CocomoLocals(inputs)
    IN  IF (IsFin(inputs.ksloc) /\ inputs.ksloc.v <= 0) \/ Len(inputs.scaleFactors) = 0
        THEN [effort |-> NaN, devTime |-> NaN, inputs |-> inputs]
        ELSE [effort |-> ToFixed2(l.effort),
              devTime |-> ToFixed2(l.devTime),
              inputs |-> inputs]

calculateCocomoII(inputs) ==
    LET l == CocomoLocals(inputs)
    IN  [effort |-> ToFixed2(l.effort),
         devTime |-> ToFixed2(l.devTime),
         inputs |-> inputs]

(***************************************************************************)
(* Natural numbers of any size, as sequences of limbs, lowest limb first,  *)
(* without high zero limbs.  They carry the 53-bit significands of the     *)
(* double-precision numbers and the exact sums, products and quotients     *)
(* from which each result is rounded.                                      *)
(***************************************************************************)
Radix == 2^15
LimbBits == 15

RECURSIVE Big(_)
\* the natural number n
Big(n) == IF n = 0 THEN <<>> ELSE <<n % Radix>> \o Big(n \div Radix)

RECURSIVE BigTrim(_)
BigTrim(a) ==
    IF Len(a) = 0 THEN a
    ELSE IF a[Len(a)] = 0 THEN BigTrim(SubSeq(a, 1, Len(a) - 1)) ELSE a

LimbAt(a, i) == IF i <= Len(a) THEN a[i] ELSE 0

RECURSIVE BigAddFrom(_, _, _, _)
BigAddFrom(a, b, i, carry) ==
    IF i > Len(a) /\ i > Len(b)
    THEN (IF carry = 0 THEN <<>> ELSE <<carry>>)
    ELSE LET s == LimbAt(a, i) + LimbAt(b, i) + carry
         IN  <<s % Radix>> \o BigAddFrom(a, b, i + 1, s \div Radix)

BigAdd(a, b) == BigTrim(BigAddFrom(a, b, 1, 0))

RECURSIVE BigSubFrom(_, _, _, _)
BigSubFrom(a, b, i, borrow) ==
    IF i > Len(a) THEN <<>>
    ELSE LET d == a[i] - LimbAt(b, i) - borrow
         IN  <<(d + Radix) % Radix>> \o BigSubFrom(a, b, i + 1, IF d < 0 THEN 1 ELSE 0)

\* a - b, for a >= b
BigSub(a, b) == BigTrim(BigSubFrom(a, b, 1, 0))

RECURSIVE BigCmpAt(_, _, _)
BigCmpAt(a, b, i) ==
    IF i = 0 THEN 0
    ELSE IF a[i] > b[i] THEN 1
    ELSE IF a[i] < b[i] THEN -1
    ELSE BigCmpAt(a, b, i - 1)

\* -1, 0 or 1 as a is less than, equal to or greater than b
BigCmp(a, b) ==
    IF Len(a) > Len(b) THEN 1
    ELSE IF Len(a) < Len(b) THEN -1
    ELSE BigCmpAt(a, b, Len(a))

RECURSIVE BigMulLimb(_, _, _, _)
BigMulLimb(a, k, i, carry) ==
    IF i > Len(a) THEN (IF carry = 0 THEN <<>> ELSE <<carry>>)
    ELSE LET p == a[i] * k + carry
         IN  <<p % Radix>> \o BigMulLimb(a, k, i + 1, p \div Radix)

RECURSIVE BigMulFrom(_, _, _)
BigMulFrom(a, b, j) ==
    IF j > Len(b) THEN <<>>
    ELSE BigAddFrom(BigMulLimb(a, b[j], 1, 0), <<0>> \o BigMulFrom(a, b, j + 1), 1, 0)

BigMul(a, b) == BigTrim(BigMulFrom(a, b, 1))

RECURSIVE BitsOf(_)
BitsOf(n) == IF n = 0 THEN 0 ELSE 1 + BitsOf(n \div 2)

\* the number of bits of a
BigBitLen(a) == IF Len(a) = 0 THEN 0 ELSE LimbBits * (Len(a) - 1) + BitsOf(a[Len(a)])

\* a * 2^k
BigShl(a, k) ==
    IF Len(a) = 0 THEN a
    ELSE [i \in 1..(k \div LimbBits) |-> 0] \o BigTrim(BigMulLimb(a, 2^(k % LimbBits), 1, 0))

\* a \div 2^k
BigShr(a, k) ==
    LET q == k \div LimbBits
        r == k % LimbBits
    IN  IF q >= Len(a) THEN <<>>
        ELSE LET b == SubSeq(a, q + 1, Len(a))
             IN  BigTrim([i \in 1..Len(b) |->
                            (b[i] \div 2^r) + (LimbAt(b, i + 1) % 2^r) * 2^(LimbBits - r)])

\* bit k of a, bit 0 being the lowest
BigBit(a, k) == (LimbAt(a, k \div LimbBits + 1) \div 2^(k % LimbBits)) % 2

\* a % 2^k # 0
BigLowBitsSet(a, k) == BigShl(BigShr(a, k), k) # a

BigIsOdd(a) == LimbAt(a, 1) % 2 = 1

RECURSIVE BigDivBits(_, _, _, _, _)
\* long division of the bits hi down to lo of N by D, bit by bit, starting
\* from the remainder r left by the bits above hi
BigDivBits(r, N, D, hi, lo) ==
    IF hi = lo
    THEN LET r2 == BigAdd(BigAdd(r, r), Big(BigBit(N, hi)))
         IN  IF BigCmp(r2, D) >= 0
             THEN [q |-> <<1>>, r |-> BigSub(r2, D)]
             ELSE [q |-> <<>>, r |-> r2]
    ELSE LET mid == (hi + lo) \div 2
             upper == BigDivBits(r, N, D, hi, mid + 1)
             \* the test makes the upper half be computed before the lower is entered
             lower == IF Len(upper.r) = 0
                      THEN BigDivBits(<<>>, N, D, mid, lo)
                      ELSE BigDivBits(upper.r, N, D, mid, lo)
         IN  [q |-> BigAdd(BigShl(upper.q, mid - lo + 1), lower.q), r |-> lower.r]

RECURSIVE BigDivLimbs(_, _, _, _)
\* short division of the limbs i down to 1 of N by the single limb d, starting
\* from the remainder rem left by the limbs above i
BigDivLimbs(N, d, i, rem) ==
    IF i = 0 THEN [q |-> <<>>, r |-> Big(rem)]
    ELSE LET cur == rem * Radix + N[i]
             rest == BigDivLimbs(N, d, i - 1, cur % d)
         IN  [q |-> Append(rest.q, cur \div d), r |-> rest.r]

\* quotient and remainder of N by D, for N > 0 and D > 0
BigDivMod(N, D) ==
    IF Len(D) = 1
    THEN LET qr == BigDivLimbs(N, D[1], Len(N), 0)
         IN  [q |-> BigTrim(qr.q), r |-> qr.r]
    ELSE BigDivBits(<<>>, N, D, BigBitLen(N) - 1, 0)

RECURSIVE BigSqrtPairs(_, _, _, _, _)
\* square root by pairs of bits, from pair hi down to pair lo of N: root is
\* the root of the pairs above hi and rem what they leave over
BigSqrtPairs(root, rem, N, hi, lo) ==
    IF hi = lo
    THEN LET rem2 == BigAdd(BigShl(rem, 2), Big(2 * BigBit(N, 2 * hi + 1) + BigBit(N, 2 * hi)))
             trial == BigAdd(BigShl(root, 2), <<1>>)
         IN  IF BigCmp(rem2, trial) >= 0
             THEN [root |-> BigAdd(BigShl(root, 1), <<1>>), rem |-> BigSub(rem2, trial)]
             ELSE [root |-> BigShl(root, 1), rem |-> rem2]
    ELSE LET mid == (hi + lo) \div 2
             upper == BigSqrtPairs(root, rem, N, hi, mid + 1)
         IN  \* the test makes the upper half be computed before the lower is entered
             IF Len(upper.rem) = 0
             THEN BigSqrtPairs(upper.root, <<>>, N, mid, lo)
             ELSE BigSqrtPairs(upper.root, upper.rem, N, mid, lo)

\* the largest root with root * root <= N, and rem = N - root * root, for N > 0
BigSqrtRem(N) == BigSqrtPairs(<<>>, <<>>, N, (BigBitLen(N) - 1) \div 2, 0)

(***************************************************************************)
(* JavaScript numbers as IEEE 754 double-precision values: s * m * 2^e     *)
(* with a significand m below 2^53.  Every operation computes its exact    *)
(* result and rounds it once, to nearest, ties to even.  The two zeros are *)
(* one value here: no operation of the program tells them apart.           *)
(***************************************************************************)
Precision == 53
\* the exponent of the smallest positive number, 2^-1074
MinExponent == -1074
\* the largest exponent of a 53-bit significand: (2^53 - 1) * 2^971 is the largest number
MaxExponent == 971

DZero == [t |-> "num", s |-> 1, m |-> <<>>, e |-> 0]
DNaN == [t |-> "NaN", s |-> 1, m |-> <<>>, e |-> 0]
DInf(s) == [t |-> "Infinity", s |-> s, m |-> <<>>, e |-> 0]

DIsNaN(x) == x.t = "NaN"
DIsInf(x) == x.t = "Infinity"
DIsFin(x) == x.t = "num"
DIsZero(x) == x.t = "num" /\ Len(x.m) = 0

Max(a, b) == IF a >= b THEN a ELSE b
Min(a, b) == IF a <= b THEN a ELSE b

\* the number s * m * 2^e, with overflow to Infinity
DPack(s, m, e) ==
    IF Len(m) = 0 THEN DZero
    ELSE IF e > MaxExponent THEN DInf(s)
    ELSE [t |-> "num", s |-> s, m |-> m, e |-> e]

\* s * N * 2^e rounded to a double; sticky says that the exact value lies
\* strictly above N * 2^e and below (N + 1) * 2^e
DRound(s, N, e, sticky) ==
    LET L == BigBitLen(N)
        k == Max(L - Precision, MinExponent - e)
    IN  IF k <= 0
        THEN LET up == Min(Precision - L, e - MinExponent)
             IN  DPack(s, BigShl(N, up), e - up)
        ELSE LET q == BigShr(N, k)
                 guard == BigBit(N, k - 1) = 1
                 rest == sticky \/ BigLowBitsSet(N, k - 1)
                 q1 == IF guard /\ (rest \/ BigIsOdd(q)) THEN BigAdd(q, <<1>>) ELSE q
             IN  IF BigBitLen(q1) > Precision
                 THEN DPack(s, BigShr(q1, 1), e + k + 1)
                 ELSE DPack(s, q1, e + k)

\* the integer n as a double
DInt(n) == DRound(IF n < 0 THEN -1 ELSE 1, Big(IF n < 0 THEN -n ELSE n), 0, FALSE)

DNeg(x) == IF DIsNaN(x) \/ DIsZero(x) THEN x ELSE [x EXCEPT !.s = -x.s]

\* Math.abs(x)
DAbs(x) == IF DIsNaN(x) THEN x ELSE [x EXCEPT !.s = 1]

\* the position of the highest bit of a number that is not 0
DTop(x) == x.e + BigBitLen(x.m)

\* x + y where y is too small to reach the bits of x that are kept: y only
\* says on which side of x the sum lies
DAddFar(x, y) ==
    IF x.s = y.s
    THEN DRound(x.s, BigShl(x.m, 2), x.e - 2, TRUE)
    ELSE DRound(x.s, BigSub(BigShl(x.m, 2), <<1>>), x.e - 2, TRUE)

\* x + y
DAdd(x, y) ==
    IF DIsNaN(x) \/ DIsNaN(y) THEN DNaN
    ELSE IF DIsInf(x) THEN (IF DIsInf(y) /\ y.s # x.s THEN DNaN ELSE x)
    ELSE IF DIsInf(y) THEN y
    ELSE IF DIsZero(x) THEN y
    ELSE IF DIsZero(y) THEN x
    ELSE IF DTop(x) - DTop(y) > 2 * Precision THEN DAddFar(x, y)
    ELSE IF DTop(y) - DTop(x) > 2 * Precision THEN DAddFar(y, x)
    ELSE LET e == Min(x.e, y.e)
             X == BigShl(x.m, x.e - e)
             Y == BigShl(y.m, y.e - e)
             c == BigCmp(X, Y)
         IN  IF x.s = y.s THEN DRound(x.s, BigAdd(X, Y), e, FALSE)
             ELSE IF c = 0 THEN DZero
             ELSE IF c > 0 THEN DRound(x.s, BigSub(X, Y), e, FALSE)
             ELSE DRound(y.s, BigSub(Y, X), e, FALSE)

\* x - y
DSub(x, y) == DAdd(x, DNeg(y))

\* x * y
DMul(x, y) ==
    IF DIsNaN(x) \/ DIsNaN(y) THEN DNaN
    ELSE IF DIsInf(x) \/ DIsInf(y)
         THEN (IF DIsZero(x) \/ DIsZero(y) THEN DNaN ELSE DInf(x.s * y.s))
    ELSE IF DIsZero(x) \/ DIsZero(y) THEN DZero
    ELSE DRound(x.s * y.s, BigMul(x.m, y.m), x.e + y.e, FALSE)

\* s * (N / D) * 2^e rounded to a double, for N > 0 and D > 0
DQuot(s, N, D, e) ==
    LET sh == Max(0, Precision + 4 + BigBitLen(D) - BigBitLen(N))
        qr == BigDivMod(BigShl(N, sh), D)
    IN  DRound(s, qr.q, e - sh, Len(qr.r) # 0)

\* x / y
DDiv(x, y) ==
    IF DIsNaN(x) \/ DIsNaN(y) THEN DNaN
    ELSE IF DIsInf(x) THEN (IF DIsInf(y) THEN DNaN ELSE DInf(x.s * y.s))
    ELSE IF DIsInf(y) THEN DZero
    ELSE IF DIsZero(y) THEN (IF DIsZero(x) THEN DNaN ELSE DInf(x.s))
    ELSE IF DIsZero(x) THEN DZero
    ELSE DQuot(x.s * y.s, x.m, y.m, x.e - y.e)

\* Math.sqrt(x)
DSqrt(x) ==
    IF DIsNaN(x) THEN DNaN
    ELSE IF DIsZero(x) THEN DZero
    ELSE IF x.s < 0 THEN DNaN
    ELSE IF DIsInf(x) THEN x
    ELSE LET sh0 == Max(0, 2 * Precision + 4 - BigBitLen(x.m))
             sh == IF (x.e - sh0) % 2 = 0 THEN sh0 ELSE sh0 + 1
             N == BigShl(x.m, sh)
             r == BigSqrtRem(N)
         IN  DRound(1, r.root, (x.e - sh) \div 2, Len(r.rem) # 0)

\* the decimal literal n / d, d a power of ten: the double nearest to it
DDec(n, d) == DDiv(DInt(n), DInt(d))

\* 10^21, from which on toFixed writes the number as ToString does
ToFixedLimit == BigMul(Big(10^9), BigMul(Big(10^9), Big(10^3)))

ToFixedLimitBits == BigBitLen(ToFixedLimit)

\* parseFloat(x.toFixed(2)): the integer n nearest to 100 * |x|, the larger
\* one of two equally near, then the double nearest to n / 100
DToFixed2(x) ==
    IF ~DIsFin(x) \/ DIsZero(x) THEN x
    ELSE IF DTop(x) > ToFixedLimitBits THEN x
    ELSE IF x.e >= 0 /\ BigCmp(BigShl(x.m, x.e), ToFixedLimit) >= 0 THEN x
    ELSE LET M == BigMul(x.m, Big(100))
             n == IF x.e >= 0 THEN BigShl(M, x.e)
                  ELSE IF BigBit(M, -x.e - 1) = 1
                       THEN BigAdd(BigShr(M, -x.e), <<1>>)
                       ELSE BigShr(M, -x.e)
         IN  IF Len(n) = 0 THEN DZero ELSE DQuot(x.s, n, Big(100), 0)


(***************************************************************************)
(* Accuracy metrics over a list of {estimated, actual}.  They work on      *)
(* double-precision numbers: their sums round at every step, which the     *)
(* claims about equal actual values and about the order of the list        *)
(* depend upon.                                                            *)
(***************************************************************************)
Null == [t |-> "null", s |-> 1, m |-> <<>>, e |-> 0]

\* the error with its sign
SignedError(point) == DSub(point.actual, point.estimated)

AbsoluteError(point) == DAbs(DSub(point.actual, point.estimated))

\* Math.pow(x, 2): the product x * x rounded once
Square(x) == DMul(x, x)

SquaredError(point) == Square(DSub(point.actual, point.estimated))

RECURSIVE SumAbsoluteErrors(_, _, _)
\* data.reduce((sum, point) => sum + Math.abs(point.actual - point.estimated), 0)
SumAbsoluteErrors(d, i, sum) ==
    IF i > Len(d) THEN sum
    ELSE SumAbsoluteErrors(d, i + 1, DAdd(sum, AbsoluteError(d[i])))

RECURSIVE SumSquaredErrors(_, _, _)
\* data.reduce((sum, point) => sum + Math.pow(point.actual - point.estimated, 2), 0)
SumSquaredErrors(d, i, sum) ==
    IF i > Len(d) THEN sum
    ELSE SumSquaredErrors(d, i + 1, DAdd(sum, SquaredError(d[i])))

RECURSIVE SumActual(_, _, _)
\* data.reduce((sum, point) => sum + point.actual, 0)
SumActual(d, i, sum) ==
    IF i > Len(d) THEN sum
    ELSE SumActual(d, i + 1, DAdd(sum, d[i].actual))

RECURSIVE SumSquaredDeviations(_, _, _, _)
\* data.reduce((sum, point) => sum + Math.pow(point.actual - meanActual, 2), 0)
SumSquaredDeviations(d, meanActual, i, sum) ==
    IF i > Len(d) THEN sum
    ELSE SumSquaredDeviations(d, meanActual, i + 1,
                              DAdd(sum, Square(DSub(d[i].actual, meanActual))))

\* null returned for a zero sum as well as for no data
calculateMAENullOnZero(d) ==
    IF Len(d) = 0 \/ DIsZero(SumAbsoluteErrors(d, 1, DZero)) THEN Null
    ELSE DToFixed2(DDiv(SumAbsoluteErrors(d, 1, DZero), DInt(Len(d))))

calculateMAE(d) ==
    IF Len(d) = 0 THEN Null
    ELSE DToFixed2(DDiv(SumAbsoluteErrors(d, 1, DZero), DInt(Len(d))))

\* the mean of the squared errors, without the square root
calculateRMSEWithoutRoot(d) ==
    IF Len(d) = 0 THEN Null
    ELSE DToFixed2(DDiv(SumSquaredErrors(d, 1, DZero), DInt(Len(d))))

calculateRMSE(d) ==
    IF Len(d) = 0 THEN Null
    ELSE DToFixed2(DSqrt(DDiv(SumSquaredErrors(d, 1, DZero), DInt(Len(d)))))

\* the ratio ssRes / ssTot itself, not subtracted from 1
calculateR2ScoreAsRatio(d) ==
    IF Len(d) = 0 THEN Null
    ELSE LET n == Len(d)
             meanActual == DDiv(SumActual(d, 1, DZero), DInt(n))
             ssRes == SumSquaredErrors(d, 1, DZero)
             ssTot == SumSquaredDeviations(d, meanActual, 1, DZero)
         IN  IF DIsZero(ssTot)
             THEN (IF DIsZero(ssRes) THEN DInt(1) ELSE Null)
             ELSE DToFixed2(DDiv(ssRes, ssTot))

calculateR2Score(d) ==
    IF Len(d) = 0 THEN Null
    ELSE LET n == Len(d)
             meanActual == DDiv(SumActual(d, 1, DZero), DInt(n))
             ssRes == SumSquaredErrors(d, 1, DZero)
             ssTot == SumSquaredDeviations(d, meanActual, 1, DZero)
         IN  IF DIsZero(ssTot)
             THEN (IF DIsZero(ssRes) THEN DInt(1) ELSE Null)
             ELSE DToFixed2(DSub(DInt(1), DDiv(ssRes, ssTot)))

(***************************************************************************)
(* Inputs tried.                                                           *)
(***************************************************************************)
FpFields == {"ei", "eo", "eq", "ilf", "eif"}

\* counts as the forms deliver them: non-negative integers
RegularCounts == {Num(0), Num(1), Num(MaxCount)}
RegularFp == [FpFields -> RegularCounts]

\* counts the calculator is not protected against: negative, fractional, NaN
IrregularCounts == {Num(-1), Centi(240), NaN}
IrregularFp ==
    {[[f \in FpFields |-> Num(1)] EXCEPT ![g] = c] : g \in FpFields, c \in IrregularCounts}

\* the same count in all five fields
UniformFp == {[f \in FpFields |-> c] : c \in RegularCounts}

UniformGsc == {[id \in GscIds |-> Num(r)] : r \in 0..5}

\* one rating changed to another rating, or to a value outside 0..5
OverrideValues == {Num(r) : r \in 0..5} \cup {Num(-1), Num(7), Centi(240), NaN}
OverriddenGsc == {[g EXCEPT ![id] = x] : g \in UniformGsc, id \in GscIds, x \in OverrideValues}

\* one id left out
PartialGsc == {[id \in GscIds \ {out} |-> g[id]] : g \in UniformGsc, out \in GscIds}

\* an entry under an id that is not one of the fourteen
WithUnknownId(g) == [id \in DOMAIN g \cup {"unknownFactor"} |->
                        IF id = "unknownFactor" THEN Num(3) ELSE g[id]]

IrregularGsc ==
    LET G == OverriddenGsc \cup PartialGsc
    IN  G \cup {WithUnknownId(g) : g \in G} \cup {[id \in {} |-> Zero]}

\* defaultValues.ksloc of the COCOMO form
DefaultKsloc == 10

KslocValues == {Num(-1), Zero, Centi(50), Num(1), Num(MaxKsloc), Num(DefaultKsloc)}

FactorIndexes == 1..Len(COCOMO_SCALE_FACTORS)
LevelIndexes == 1..6

\* the level chosen for each factor: the same for all, or one factor at another level
UniformLevels == {[i \in FactorIndexes |-> l] : l \in LevelIndexes}
Levels == {[u EXCEPT ![i] = l] : u \in UniformLevels, i \in FactorIndexes, l \in LevelIndexes}

\* orders in which the caller may have inserted the five factors
Orders == {<<1, 2, 3, 4, 5>>, <<5, 4, 3, 2, 1>>, <<3, 1, 5, 2, 4>>}

Entries(levels, order) ==
    [j \in FactorIndexes |->
        [id |-> COCOMO_SCALE_FACTORS[order[j]].id,
         value |-> Centi(COCOMO_SCALE_FACTORS[order[j]].values[levels[order[j]]])]]

UnknownEntry == [id |-> "XTRA", value |-> Num(5)]

KnownScaleFactors ==
    {Entries(l, o) : l \in Levels, o \in Orders}
    \cup {SubSeq(Entries(u, o), 1, n) : u \in UniformLevels, o \in Orders, n \in 0..4}

ScaleFactorMaps ==
    KnownScaleFactors
    \cup {Append(sf, UnknownEntry) : sf \in KnownScaleFactors}
    \cup {<<UnknownEntry>> \o sf : sf \in KnownScaleFactors}

CocomoInputSet == [ksloc : KslocValues, scaleFactors : ScaleFactorMaps]

\* the calls whose results the result view is tried on: every size with all
\* five factors at one level
ViewInputSet == [ksloc : KslocValues, scaleFactors : {Entries(u, o) : u \in UniformLevels, o \in Orders}]

\* the values of the data points, in tenths
DataTenths == 0..MaxVal

\* the actual values of a list that is tried in every order: 0, 0.1, 0.2, 0.4, ...
SpreadTenths(i) == IF i = 1 THEN 0 ELSE 2^(i - 2)

AllTenths == DataTenths \cup {SpreadTenths(i) : i \in 1..MaxLen}

\* the number a user writes as t / 10
TenthsTable == [t \in AllTenths |-> DDec(t, 10)]

DataValues == {TenthsTable[t] : t \in DataTenths}
DataPoints == [estimated : DataValues, actual : DataValues]

\* every list of at most two points
ShortLists == UNION {[1..n -> DataPoints] : n \in 0..2}

\* longer lists with one actual value throughout, and one estimate throughout
\* except for the first
ConstantActualLists ==
    {[i \in 1..n |-> [estimated |-> IF i = 1 THEN e1 ELSE e, actual |-> a]] :
        n \in 3..MaxLen, a \in DataValues, e \in DataValues, e1 \in DataValues}

Orderings(n) == {p \in [1..n -> 1..n] : \A i, j \in 1..n : p[i] = p[j] => i = j}

\* longer lists of estimates 0 with the spread actual values, in every order
SpreadLists ==
    UNION {{[i \in 1..n |-> [estimated |-> DZero, actual |-> TenthsTable[SpreadTenths(p[i])]]] :
                p \in Orderings(n)} : n \in 3..MaxLen}

DataLists == ShortLists \cup ConstantActualLists \cup SpreadLists

\* actual values written with three decimals, which lie next to a half of a
\* hundredth: 0.045, 0.105, 0.125, 0.175 (0 for an exact estimate)
FineThousandths == {0, 45, 105, 125, 175}

\* lists of estimates 0 with such actual values
FineLists ==
    UNION {[1..n -> {[estimated |-> DZero, actual |-> DDec(t, 1000)] : t \in FineThousandths}] :
              n \in 1..MaxFineLen}

(***************************************************************************)
(* Texts and objects of the pages.  A text is a sequence of characters.    *)
(* An object is a function on its keys; reading a key the object does not  *)
(* have gives undefined, and a spread {...a, ...b} has the keys of both    *)
(* with b's values on the keys of b.                                       *)
(***************************************************************************)
Undefined == [t |-> "undefined", v |-> 0]
NoValue == [t |-> "null", v |-> 0]

Text(chars) == [t |-> "text", chars |-> chars]
Str(s) == [t |-> "string", v |-> s]

EmptyObject == [k \in {} |-> Undefined]
Field(object, key) == IF key \in DOMAIN object THEN object[key] ELSE Undefined
Spread(a, b) == [k \in DOMAIN a \cup DOMAIN b |-> IF k \in DOMAIN b THEN b[k] ELSE a[k]]
\* an object literal with keys set to undefined: every reader of the history
\* (!== undefined, typeof, String, the spread) takes such a key for a missing
\* one, and so it is kept as a missing key
Stored(object) == [k \in {j \in DOMAIN object : object[j] # Undefined} |-> object[k]]

DigitChars == <<"0", "1", "2", "3", "4", "5", "6", "7", "8", "9">>
DigitValue(c) == (CHOOSE d \in 1..10 : DigitChars[d] = c) - 1
WhiteSpace == {" "}

\* the first position from i on that holds no character of the set
RECURSIVE SkipWhile(_, _, _)
SkipWhile(text, i, chars) ==
    IF i <= Len(text) /\ text[i] \in chars THEN SkipWhile(text, i + 1, chars) ELSE i

\* the digits text[i..j-1] read as a number of millionths, the first digit
\* counting unit (digits below a millionth are dropped)
RECURSIVE ReadDigits(_, _, _, _)
ReadDigits(text, i, j, unit) ==
    IF i >= j THEN 0
    ELSE DigitValue(text[i]) * unit + ReadDigits(text, i + 1, j, unit \div 10)

\* parseFloat: leading white space, a sign, digits, a point and digits; what
\* follows is ignored, and a text without any digit there gives NaN.  (The
\* texts tried carry neither an exponent part nor the word Infinity.)
ParseFloatIgnoringSign(chars) ==
    LET text == chars
        start == SkipWhile(text, 1, WhiteSpace)
        first == IF start <= Len(text) /\ text[start] \in {"+", "-"} THEN start + 1 ELSE start
        point == SkipWhile(text, first, {DigitChars[d] : d \in 1..10})
        hasPoint == point <= Len(text) /\ text[point] = "."
        last == IF hasPoint THEN SkipWhile(text, point + 1, {DigitChars[d] : d \in 1..10}) ELSE point
        wholeDigits == point - first
        fractionDigits == IF hasPoint THEN last - point - 1 ELSE 0
    IN  IF wholeDigits + fractionDigits = 0 THEN NaN
        ELSE Fin((IF wholeDigits = 0 THEN 0
                  ELSE ReadDigits(text, first, point, Scale * 10^(wholeDigits - 1)))
                 + (IF fractionDigits = 0 THEN 0
                    ELSE ReadDigits(text, point + 1, last, Scale \div 10)))

parseFloat(text) ==
    LET start == SkipWhile(text.chars, 1, WhiteSpace)
        negative == start <= Len(text.chars) /\ text.chars[start] = "-"
        magnitude == ParseFloatIgnoringSign(text.chars)
    IN  IF negative THEN NNeg(magnitude) ELSE magnitude

isNaN(x) == x = Undefined \/ IsNaN(x)

RECURSIVE NaturalToString(_)
NaturalToString(n) ==
    IF n < 10 THEN <<DigitChars[n + 1]>>
    ELSE NaturalToString(n \div 10) \o <<DigitChars[(n % 10) + 1]>>

\* the digits of f, a count of 10^-width, without the zeros at the end
RECURSIVE FractionToString(_, _)
FractionToString(f, width) ==
    IF f = 0 THEN <<>>
    ELSE <<DigitChars[(f \div 10^(width - 1)) + 1]>>
         \o FractionToString(f % 10^(width - 1), width - 1)

\* String(number), for the numbers a text field can have produced
String(x) ==
    Text(IF x = NoValue THEN <<"n", "u", "l", "l">>
         ELSE IF IsNaN(x) THEN <<"N", "a", "N">>
         ELSE IF IsInf(x) THEN (IF x.v < 0 THEN <<"-">> ELSE <<>>)
                               \o <<"I", "n", "f", "i", "n", "i", "t", "y">>
         ELSE (IF x.v < 0 THEN <<"-">> ELSE <<>>)
              \o NaturalToString(Abs(x.v) \div Scale)
              \o (IF Abs(x.v) % Scale = 0 THEN <<>>
                  ELSE <<".">> \o FractionToString(Abs(x.v) % Scale, 6)))

\* the double nearest to a decimal number
ToDouble(x) ==
    IF IsNaN(x) THEN DNaN
    ELSE IF IsInf(x) THEN DInf(x.v)
    ELSE DDiv(DInt(x.v), DInt(Scale))

(***************************************************************************)
(* The pages.  The calculation history is kept under one key of the        *)
(* browser's storage; the component of the page on screen reads it when it *)
(* is mounted and writes it back whenever it sets it.  One page is on      *)
(* screen at a time, and the state of its components is lost when the      *)
(* user leaves it.                                                         *)
(***************************************************************************)
Pages == {"fp-calculator", "cocomo-estimator", "file-analyzer", "history", "comparison"}

\* what the forms can submit: fp-calculator-form.tsx admits counts from 0
\* and ratings from 0 to 5, cocomo-form.tsx a positive size and one value of
\* each factor's table
FpFormData ==
    {[fp |-> [f \in FpFields |-> Num(MaxCount)], gsc |-> [id \in GscIds |-> Num(3)]]}

CocomoFormData ==
    {[ksloc |-> Num(DefaultKsloc), scaleFactors |-> Entries([i \in FactorIndexes |-> 3], <<1, 2, 3, 4, 5>>)]}

\* what the document analysis can answer: a count may be null or left out,
\* and the AI adds estimates of its own
AiKeys == {"EI", "EO", "EQ", "ILF", "EIF"}

PartialAnalysis ==
    [potentialFunctionPoints |->
        [k \in AiKeys |-> IF k = "EI" THEN [description |-> k, count |-> NoValue]
                          ELSE IF k = "EO" THEN [description |-> k]
                          ELSE [description |-> k, count |-> Num(2)]],
     gscRatings |-> [id \in GscIds |-> Num(3)],
     estimatedUfp |-> Num(42), estimatedVaf |-> Centi(107), estimatedAfp |-> Centi(4494)]

\* an answer with every count, one of them 0, one rating null, one rating
\* given and the other ratings left out
SparseAnalysis ==
    [potentialFunctionPoints |->
        [k \in AiKeys |-> [description |-> k, count |-> IF k = "EI" THEN Num(0) ELSE Num(4)]],
     gscRatings |-> [id \in {"dataCommunications", "performance"} |->
                        IF id = "performance" THEN Num(4) ELSE NoValue],
     estimatedUfp |-> NoValue, estimatedVaf |-> NoValue, estimatedAfp |-> NoValue]

\* an answer without gscRatings
CountsOnlyAnalysis ==
    [potentialFunctionPoints |-> [k \in AiKeys |-> [description |-> k, count |-> Num(1)]],
     estimatedUfp |-> Num(30), estimatedVaf |-> NoValue, estimatedAfp |-> NoValue]

AnalysisResults ==
    IF op = "forms" THEN {PartialAnalysis, SparseAnalysis, CountsOnlyAnalysis}
    ELSE {PartialAnalysis}

\* the pages are studied as a whole, with one file to choose, form by form
\* with more to choose from, or for the saves of the two forms of one page
OnPages == op \in {"pages", "forms", "saves"}

FileNames ==
    IF op = "forms" THEN {Str("requirements.pdf"), Str("design.pdf")}
    ELSE {Str("requirements.pdf")}

\* what the user types into a field for an actual value
ActualTexts(field) ==
    IF field = "actualDevTime" THEN {Text(<<"7", ".", "5">>)}
    ELSE IF field = "actualEffort" THEN {Text(<<>>), Text(<<"1", "5", "0">>)}
    ELSE {Text(<<>>), Text(<<"0">>), Text(<<"1", "5", "0">>), Text(<<"a", "b", "c">>)}

ActualFields(type) ==
    IF type = "FP" THEN {"actualAfp"}
    ELSE IF type = "COCOMO" THEN {"actualEffort", "actualDevTime"}
    ELSE {}

IsNumber(x) == x.t \in {"num", "NaN", "Infinity"}       \* typeof x === 'number'

\* Array.prototype.sort by a key, stable: before(a, b) orders two keys
RECURSIVE InsertByTimestamp(_, _, _)
InsertByTimestamp(sorted, x, newestFirst) ==
    IF sorted = <<>> THEN <<x>>
    ELSE IF (IF newestFirst THEN Head(sorted).timestamp >= x.timestamp
             ELSE Head(sorted).timestamp <= x.timestamp)
         THEN <<Head(sorted)>> \o InsertByTimestamp(Tail(sorted), x, newestFirst)
         ELSE <<x>> \o sorted

RECURSIVE SortByTimestamp(_, _)
SortByTimestamp(h, newestFirst) ==
    IF h = <<>> THEN <<>>
    ELSE InsertByTimestamp(SortByTimestamp(SubSeq(h, 1, Len(h) - 1), newestFirst),
                           h[Len(h)], newestFirst)

(***************************************************************************)
(* History entries and what the handlers build.                            *)
(***************************************************************************)
HistoryEntry(id, type, timestamp, d) ==
    [id |-> id, type |-> type, timestamp |-> timestamp, data |-> d]

\* analysisResult.potentialFunctionPoints.X?.count ?? 0
CountOrZero(potentialFunctionPoints, key) ==
    LET detail == Field(potentialFunctionPoints, key)
        count == IF detail = Undefined THEN Undefined ELSE Field(detail, "count")
    IN  IF count \in {Undefined, NoValue} THEN Num(0) ELSE count

AnalysisFpInputs(result) ==
    [ei |-> CountOrZero(result.potentialFunctionPoints, "EI"),
     eo |-> CountOrZero(result.potentialFunctionPoints, "EO"),
     eq |-> CountOrZero(result.potentialFunctionPoints, "EQ"),
     ilf |-> CountOrZero(result.potentialFunctionPoints, "ILF"),
     eif |-> CountOrZero(result.potentialFunctionPoints, "EIF")]

AnalysisGscInputs == [id \in GscIds |-> Num(0)]

\* a save that stores the AI's own estimates in place of the calculated ones
AnalysisHistoryDataFromEstimates(result, fileName) ==
    [ufp |-> result.estimatedUfp, vaf |-> result.estimatedVaf, afp |-> result.estimatedAfp,
     inputs |-> AnalysisFpInputs(result), gsc |-> AnalysisGscInputs, fileName |-> fileName]

AnalysisHistoryData(result, fileName) ==
    Spread(calculateFunctionPoints(AnalysisFpInputs(result), AnalysisGscInputs),
           [fileName |-> fileName])

\* the value typed for one actual, taken as parseFloat returns it
ActualFromTextUnchecked(entryActuals, field) ==
    LET text == Field(entryActuals, field)
    IN  IF text # Undefined /\ text # Text(<<>>) THEN parseFloat(text) ELSE Undefined

\* the value typed for one actual: parseFloat of the text unless it is
\* missing or empty, and undefined in place of NaN
ActualFromText(entryActuals, field) ==
    LET text == Field(entryActuals, field)
        parsed == IF text # Undefined /\ text # Text(<<>>) THEN parseFloat(text) ELSE Undefined
    IN  IF isNaN(parsed) THEN Undefined ELSE parsed

\* save-actuals that also takes the new value as the estimate
WithActualsAsEstimate(entry, entryId, type, entryActuals) ==
    IF entry.id = entryId /\ type = "FP" /\ entry.type = "FP"
    THEN [entry EXCEPT !.data = Stored(Spread(entry.data,
            [actualAfp |-> ActualFromText(entryActuals, "actualAfp"),
             afp |-> ActualFromText(entryActuals, "actualAfp")]))]
    ELSE entry

\* the body of prevHistory.map in handleSaveActuals
WithActuals(entry, entryId, type, entryActuals) ==
    IF entry.id = entryId
    THEN IF type = "FP" /\ entry.type = "FP"
         THEN [entry EXCEPT !.data = Stored(Spread(entry.data,
                 [actualAfp |-> ActualFromText(entryActuals, "actualAfp")]))]
         ELSE IF type = "COCOMO" /\ entry.type = "COCOMO"
         THEN [entry EXCEPT !.data = Stored(Spread(entry.data,
                 [actualEffort |-> ActualFromText(entryActuals, "actualEffort"),
                  actualDevTime |-> ActualFromText(entryActuals, "actualDevTime")]))]
         ELSE entry
    ELSE entry

\* the first effect of HistoryList: the texts of the stored actuals
RECURSIVE InitialActuals(_, _, _)
InitialActuals(h, i, initialActuals) ==
    IF i > Len(h) THEN initialActuals
    ELSE LET entry == h[i]
             stored == {f \in ActualFields(entry.type) : Field(entry.data, f) # Undefined}
             texts == [f \in stored |-> String(entry.data[f])]
         IN  InitialActuals(h, i + 1,
                 IF stored = {} THEN initialActuals
                 ELSE Spread(initialActuals,
                             entry.id :> Spread(IF entry.id \in DOMAIN initialActuals
                                                THEN initialActuals[entry.id] ELSE EmptyObject,
                                                texts)))

(***************************************************************************)
(* The comparison page: the trends and the accuracy series of the entries  *)
(* of one type, and the metrics of a series.                               *)
(***************************************************************************)
MIN_DATA_POINTS_FOR_METRICS == 1

EstimateField(type) == IF type = "FP" THEN "afp" ELSE "effort"
ActualField(type) == IF type = "FP" THEN "actualAfp" ELSE "actualEffort"

RECURSIVE EntriesOfType(_, _)
EntriesOfType(h, type) ==
    IF h = <<>> THEN <<>>
    ELSE (IF Head(h).type = type THEN <<Head(h)>> ELSE <<>>) \o EntriesOfType(Tail(h), type)

TrendOf(h, type) ==
    LET entries == SortByTimestamp(EntriesOfType(h, type), FALSE)
    IN  [i \in 1..Len(entries) |->
            [timestamp |-> entries[i].timestamp, value |-> entries[i].data[EstimateField(type)]]]

\* a series that takes an entry only when its actual is not 0
RECURSIVE AccuracyOfNonZero(_, _)
AccuracyOfNonZero(h, type) ==
    IF h = <<>> THEN <<>>
    ELSE LET entry == Head(h)
             estimated == Field(entry.data, EstimateField(type))
             actual == Field(entry.data, ActualField(type))
         IN  (IF entry.type = type /\ IsNumber(estimated) /\ IsNumber(actual) /\ actual # Num(0)
              THEN <<[estimated |-> estimated, actual |-> actual]>>
              ELSE <<>>) \o AccuracyOfNonZero(Tail(h), type)

RECURSIVE AccuracyOf(_, _)
AccuracyOf(h, type) ==
    IF h = <<>> THEN <<>>
    ELSE LET entry == Head(h)
             estimated == Field(entry.data, EstimateField(type))
             actual == Field(entry.data, ActualField(type))
         IN  (IF entry.type = type /\ IsNumber(estimated) /\ IsNumber(actual)
              THEN <<[estimated |-> estimated, actual |-> actual]>>
              ELSE <<>>) \o AccuracyOf(Tail(h), type)

AccuracyMetricsOf(series) ==
    IF Len(series) >= MIN_DATA_POINTS_FOR_METRICS
    THEN LET points == [i \in 1..Len(series) |->
                           [estimated |-> ToDouble(series[i].estimated),
                            actual |-> ToDouble(series[i].actual)]]
         IN  [mae |-> calculateMAE(points), rmse |-> calculateRMSE(points),
              r2 |-> calculateR2Score(points), count |-> Len(series)]
    ELSE NoValue

(***************************************************************************)
(* The result view of CocomoForm: two figures derived from the result on   *)
(* screen.  A figure is the text of x.toFixed(2), kept as the number with  *)
(* two decimals that the text shows, or the text N/A.                      *)
(***************************************************************************)
NotAvailable == Str("N/A")

IsPositive(x) == (IsFin(x) /\ x.v > 0) \/ x = PosInf       \* x > 0

\* a view that divides whatever the effort is
ProductivityUnguarded(result) ==
    DToFixed2(DDiv(DMul(ToDouble(result.inputs.ksloc), DInt(1000)), ToDouble(result.effort)))

Productivity(result) ==
    IF IsPositive(result.effort)
    THEN DToFixed2(DDiv(DMul(ToDouble(result.inputs.ksloc), DInt(1000)), ToDouble(result.effort)))
    ELSE NotAvailable

AverageStaffing(result) ==
    IF IsPositive(result.devTime)
    THEN DToFixed2(DDiv(ToDouble(result.effort), ToDouble(result.devTime)))
    ELSE NotAvailable

(***************************************************************************)
(* The fields of the two forms.  A field holds the number it was given as  *)
(* default, by a Select or by an AI suggestion, or the text typed into it; *)
(* on submit the schema coerces each value with Number and validates it.   *)
(***************************************************************************)
\* Number(value): a number as it is, an empty text 0, a text that is a
\* decimal number that number, any other text NaN
Number(value) ==
    IF value.t # "text" THEN value
    ELSE LET text == value.chars
             start == SkipWhile(text, 1, WhiteSpace)
             first == IF start <= Len(text) /\ text[start] \in {"+", "-"} THEN start + 1
                      ELSE start
             point == SkipWhile(text, first, {DigitChars[d] : d \in 1..10})
             last == IF point <= Len(text) /\ text[point] = "."
                     THEN SkipWhile(text, point + 1, {DigitChars[d] : d \in 1..10})
                     ELSE point
         IN  IF start > Len(text) THEN Num(0)
             ELSE IF SkipWhile(text, last, WhiteSpace) <= Len(text) THEN NaN
             ELSE parseFloat(value)

\* parseInt(text): the whole part of what parseFloat reads (the texts given
\* to it are the values of the Select items)
parseInt(text) ==
    LET x == parseFloat(text)
    IN  IF IsFin(x) THEN Fin((IF x.v < 0 THEN -1 ELSE 1) * ((Abs(x.v) \div Scale) * Scale)) ELSE x

AiKey(name) ==
    CASE name = "ei" -> "EI" [] name = "eo" -> "EO" [] name = "eq" -> "EQ"
      [] name = "ilf" -> "ILF" [] name = "eif" -> "EIF"

FactorIds == {COCOMO_SCALE_FACTORS[i].id : i \in FactorIndexes}

CocomoDefaultValues ==
    [name \in {"ksloc"} \cup FactorIds |->
        IF name = "ksloc" THEN Num(DefaultKsloc)
        ELSE LET factor == CHOOSE f \in {COCOMO_SCALE_FACTORS[i] : i \in FactorIndexes} : f.id = name
             IN  Centi(factor.values[3])]

\* useForm({defaultValues}) of the form of a page; the values are kept when
\* the forms are studied one by one
DefaultValues(p) ==
    IF op # "forms" THEN EmptyObject
    ELSE IF p = "fp-calculator" THEN [name \in FpFields \cup GscIds |-> Num(0)]
    ELSE IF p = "cocomo-estimator" THEN CocomoDefaultValues
    ELSE EmptyObject

\* suggestions applied with a count of null taken for 0
WithFpSuggestionsOrZero(values, aiFpSuggestions) ==
    IF aiFpSuggestions \in {Undefined, NoValue} THEN values
    ELSE [name \in DOMAIN values |->
            IF name \in FpFields /\ Field(aiFpSuggestions, AiKey(name)) # Undefined
            THEN LET count == Field(aiFpSuggestions[AiKey(name)], "count")
                 IN  IF count \notin {Undefined, NoValue} THEN count ELSE Num(0)
            ELSE values[name]]

\* the first effect of FpCalculatorForm: form.setValue for every count suggested
WithFpSuggestions(values, aiFpSuggestions) ==
    IF aiFpSuggestions \in {Undefined, NoValue} THEN values
    ELSE [name \in DOMAIN values |->
            IF /\ name \in FpFields
               /\ Field(aiFpSuggestions, AiKey(name)) # Undefined
               /\ Field(aiFpSuggestions[AiKey(name)], "count") \notin {Undefined, NoValue}
            THEN aiFpSuggestions[AiKey(name)].count
            ELSE values[name]]

\* the second effect: form.setValue for every rating suggested
WithGscSuggestions(values, aiGscSuggestions) ==
    IF aiGscSuggestions \in {Undefined, NoValue} THEN values
    ELSE [name \in DOMAIN values |->
            IF name \in GscIds /\ Field(aiGscSuggestions, name) \notin {Undefined, NoValue}
            THEN aiGscSuggestions[name]
            ELSE values[name]]

\* z.coerce.number() of every field
Coerced(values) == [name \in DOMAIN values |-> Number(values[name])]

\* formSchema of FpCalculatorForm: counts from 0, ratings from 0 to 5
FpFormValid(d) ==
    /\ \A name \in FpFields : (IsFin(d[name]) /\ d[name].v >= 0) \/ d[name] = PosInf
    /\ \A name \in GscIds : IsFin(d[name]) /\ d[name].v >= 0 /\ d[name].v <= 5 * Scale

\* the schema with nonnegative() in place of positive()
CocomoFormValidFromZero(d) ==
    /\ (IsFin(d.ksloc) /\ d.ksloc.v >= 0) \/ d.ksloc = PosInf
    /\ \A name \in FactorIds : ~IsNaN(d[name])

\* formSchema of CocomoForm: a positive size, a number for each factor
CocomoFormValid(d) ==
    /\ (IsFin(d.ksloc) /\ d.ksloc.v > 0) \/ d.ksloc = PosInf
    /\ \A name \in FactorIds : ~IsNaN(d[name])

\* what handleSubmit passes to onSubmit of FpCalculatorForm, as the
\* arguments onSubmit makes of it: nothing while the values are not valid
FpSubmitted ==
    IF op # "forms" THEN FpFormData
    ELSE LET d == Coerced(formValues)
         IN  IF FpFormValid(d)
             THEN {[fp |-> [name \in FpFields |-> d[name]], gsc |-> [id \in GscIds |-> d[id]]]}
             ELSE {}

\* the same for CocomoForm; onSubmit enters the factors in the order of
\* COCOMO_SCALE_FACTORS
CocomoSubmitted ==
    IF op # "forms" THEN CocomoFormData
    ELSE LET d == Coerced(formValues)
         IN  IF CocomoFormValid(d)
             THEN {[ksloc |-> d.ksloc,
                    scaleFactors |-> [i \in FactorIndexes |->
                                         [id |-> COCOMO_SCALE_FACTORS[i].id,
                                          value |-> d[COCOMO_SCALE_FACTORS[i].id]]]]}
             ELSE {}

\* what the user types into the fields and chooses in the Selects
CountTexts(name) ==
    IF name \in {"ei", "eo"} THEN {Text(<<"7">>)}
    ELSE IF name = "eq" THEN {Text(<<"-", "1">>)}
    ELSE {}

RatingChoices(id) == IF id = "dataCommunications" THEN {5} ELSE {}

KslocTexts == {Text(<<>>), Text(<<"-", "1">>), Text(<<"0", ".", "5">>)}

\* the levels the user chooses: the two ends of the scale
ChosenLevels == {1, 6}

\* the value of a SelectItem, and what onValueChange makes of it
LevelValue(i, l) == parseFloat(String(Centi(COCOMO_SCALE_FACTORS[i].values[l])))

(***************************************************************************)
(* One call of one of the functions: the arguments are chosen at the       *)
(* start, the call computes the result and leaves the arguments alone.     *)
(***************************************************************************)
NotCalled == "not called"

callVars == <<op, pc, fpInputs, gscInputs, fpResult, cocomoInputs, cocomoResult, locals,
              data, metrics>>
formVars == <<formValues, formHistory, fpFormResult, cocomoFormResult, analysisResult,
              currentFileName, file, isLoading, error>>
comparisonVars == <<isClient, afpTrendData, cocomoEffortTrendData, afpAccuracyData,
                    cocomoEffortAccuracyData, afpAccuracyMetrics, cocomoAccuracyMetrics>>

\* useLocalStorage('calculationHistory', []) in the two forms of the FP
\* calculator page: each form holds the list it read from the store when it
\* was mounted, until it writes one itself.  On the other pages one component
\* reads and writes the store, and the list it holds is the store.
HistoryCopies(p) ==
    IF op = "saves" /\ p = "fp-calculator" THEN [fp |-> history, upload |-> history]
    ELSE EmptyObject

\* history, as the hook returns it to a form
OwnHistory(form) == IF DOMAIN formHistory = {} THEN history ELSE formHistory[form]

\* setHistory(list) of a form: the list becomes the form's and is written to
\* the store, whatever the store held
SetHistory(form, list) ==
    /\ history' = list
    /\ formHistory' = IF DOMAIN formHistory = {} THEN formHistory
                      ELSE [formHistory EXCEPT ![form] = list]

\* no page is open: the state of the pages while one function is called
PagesClosed ==
    /\ now = 0 /\ page = NotCalled /\ history = <<>>
    /\ formValues = EmptyObject /\ formHistory = EmptyObject
    /\ fpFormResult = NoValue /\ cocomoFormResult = NoValue
    /\ analysisResult = NoValue /\ currentFileName = NoValue /\ file = NoValue
    /\ isLoading = FALSE /\ error = NoValue
    /\ actualsInput = EmptyObject /\ isClient = FALSE
    /\ afpTrendData = <<>> /\ cocomoEffortTrendData = <<>>
    /\ afpAccuracyData = <<>> /\ cocomoEffortAccuracyData = <<>>
    /\ afpAccuracyMetrics = NoValue /\ cocomoAccuracyMetrics = NoValue


InitFP ==
    /\ PagesClosed
    /\ op = "fp"
    /\ pc = "call"
    /\ \/ fpInputs \in RegularFp /\ gscInputs \in UniformGsc
       \/ fpInputs \in UniformFp /\ gscInputs \in IrregularGsc
       \/ fpInputs \in IrregularFp /\ gscInputs \in UniformGsc
    /\ fpResult = NotCalled
    /\ cocomoInputs = NotCalled /\ cocomoResult = NotCalled
    /\ data = NotCalled /\ metrics = NotCalled
    /\ locals = NotCalled

InitCocomo ==
    /\ PagesClosed
    /\ op = "cocomo"
    /\ pc = "call"
    /\ cocomoInputs \in CocomoInputSet
    /\ cocomoResult = NotCalled
    /\ fpInputs = NotCalled /\ gscInputs = NotCalled /\ fpResult = NotCalled
    /\ data = NotCalled /\ metrics = NotCalled
    /\ locals = NotCalled

\* as InitCocomo, for the calls whose results the result view is tried on
InitCocomoView ==
    /\ PagesClosed
    /\ op = "cocomo"
    /\ pc = "call"
    /\ cocomoInputs \in ViewInputSet
    /\ cocomoResult = NotCalled
    /\ fpInputs = NotCalled /\ gscInputs = NotCalled /\ fpResult = NotCalled
    /\ data = NotCalled /\ metrics = NotCalled
    /\ locals = NotCalled

InitMetrics ==
    /\ PagesClosed
    /\ op = "metrics"
    /\ pc = "call"
    /\ data \in DataLists
    /\ metrics = NotCalled
    /\ locals = NotCalled
    /\ fpInputs = NotCalled /\ gscInputs = NotCalled /\ fpResult = NotCalled
    /\ cocomoInputs = NotCalled /\ cocomoResult = NotCalled

\* as InitMetrics, with the data written in thousandths
InitMetricsFine ==
    /\ PagesClosed
    /\ op = "metrics"
    /\ pc = "call"
    /\ data \in FineLists
    /\ metrics = NotCalled
    /\ locals = NotCalled
    /\ fpInputs = NotCalled /\ gscInputs = NotCalled /\ fpResult = NotCalled
    /\ cocomoInputs = NotCalled /\ cocomoResult = NotCalled

CallFP ==
    /\ op = "fp" /\ pc = "call"
    /\ fpResult' = calculateFunctionPoints(fpInputs, gscInputs)
    /\ locals' = FpLocals(fpInputs, gscInputs)
    /\ pc' = "done"
    /\ UNCHANGED <<op, fpInputs, gscInputs, cocomoInputs, cocomoResult, data, metrics>>
    /\ UNCHANGED <<now, page, history, formVars, actualsInput, comparisonVars>>

CallCocomo ==
    /\ op = "cocomo" /\ pc = "call"
    /\ cocomoResult' = calculateCocomoII(cocomoInputs)
    /\ locals' = CocomoLocals(cocomoInputs)
    /\ pc' = "done"
    /\ UNCHANGED <<op, fpInputs, gscInputs, fpResult, cocomoInputs, data, metrics>>
    /\ UNCHANGED <<now, page, history, formVars, actualsInput, comparisonVars>>

CallMetrics ==
    /\ op = "metrics" /\ pc = "call"
    /\ metrics' = [mae |-> calculateMAE(data),
                   rmse |-> calculateRMSE(data),
                   r2 |-> calculateR2Score(data)]
    /\ pc' = "done"
    /\ UNCHANGED <<op, fpInputs, gscInputs, fpResult, cocomoInputs, cocomoResult, locals, data>>
    /\ UNCHANGED <<now, page, history, formVars, actualsInput, comparisonVars>>

(***************************************************************************)
(* The pages as a state machine.  The user moves between the pages, fills  *)
(* in and submits the forms, saves results, types and saves actual values, *)
(* deletes entries; time passes.                                           *)
(***************************************************************************)
\* the application opens on the FP calculator with nothing stored
InitPages ==
    /\ op = "pages" /\ pc = "idle"
    /\ fpInputs = NotCalled /\ gscInputs = NotCalled /\ fpResult = NotCalled
    /\ cocomoInputs = NotCalled /\ cocomoResult = NotCalled
    /\ data = NotCalled /\ metrics = NotCalled /\ locals = NotCalled
    /\ now = 1 /\ page = "fp-calculator" /\ history = <<>>
    /\ formValues = EmptyObject /\ formHistory = EmptyObject
    /\ fpFormResult = NoValue /\ cocomoFormResult = NoValue
    /\ analysisResult = NoValue /\ currentFileName = NoValue /\ file = NoValue
    /\ isLoading = FALSE /\ error = NoValue
    /\ actualsInput = EmptyObject /\ isClient = FALSE
    /\ afpTrendData = <<>> /\ cocomoEffortTrendData = <<>>
    /\ afpAccuracyData = <<>> /\ cocomoEffortAccuracyData = <<>>
    /\ afpAccuracyMetrics = NoValue /\ cocomoAccuracyMetrics = NoValue

\* stores the pages leave behind: an FP result saved under the id 1 with an
\* actual saved for it, the result saved once more while the clock still
\* reads 1 and then again at 2; a COCOMO result saved after an FP result,
\* at a later reading of the clock or at the same
SavedFp(id, timestamp) ==
    {HistoryEntry(id, "FP", timestamp, calculateFunctionPoints(d.fp, d.gsc)) : d \in FpFormData}

SavedCocomo(id, timestamp) ==
    {HistoryEntry(id, "COCOMO", timestamp, calculateCocomoII(d)) : d \in CocomoFormData}

StoredHistories ==
    {<<c, b, WithActuals(a, "1", "FP", [actualAfp |-> Text(<<"1", "5", "0">>)])>> :
        a \in SavedFp("1", 1), b \in SavedFp("1", 2), c \in SavedFp("2", 2)}
    \cup {<<b, a>> : a \in SavedFp("1", 1), b \in SavedCocomo("2", 2) \cup SavedCocomo("1", 1)}

\* the history page open on one of these stores, its effect run
InitHistoryPage ==
    /\ op = "pages" /\ pc = "idle"
    /\ fpInputs = NotCalled /\ gscInputs = NotCalled /\ fpResult = NotCalled
    /\ cocomoInputs = NotCalled /\ cocomoResult = NotCalled
    /\ data = NotCalled /\ metrics = NotCalled /\ locals = NotCalled
    /\ now = 2 /\ page = "history" /\ history \in StoredHistories
    /\ formValues = EmptyObject /\ formHistory = EmptyObject
    /\ fpFormResult = NoValue /\ cocomoFormResult = NoValue
    /\ analysisResult = NoValue /\ currentFileName = NoValue /\ file = NoValue
    /\ isLoading = FALSE /\ error = NoValue
    /\ actualsInput = InitialActuals(history, 1, EmptyObject) /\ isClient = TRUE
    /\ afpTrendData = <<>> /\ cocomoEffortTrendData = <<>>
    /\ afpAccuracyData = <<>> /\ cocomoEffortAccuracyData = <<>>
    /\ afpAccuracyMetrics = NoValue /\ cocomoAccuracyMetrics = NoValue

Tick ==
    /\ OnPages /\ now < MaxClock
    /\ now' = now + 1
    /\ UNCHANGED <<callVars, page, history, formVars, actualsInput, comparisonVars>>

\* a page with forms is opened
OpenForms ==
    /\ OnPages
    /\ \E p \in {"fp-calculator", "cocomo-estimator", "file-analyzer"} :
        /\ p # page
        /\ page' = p
    /\ formValues' = DefaultValues(page') /\ formHistory' = HistoryCopies(page')
    /\ fpFormResult' = NoValue /\ cocomoFormResult' = NoValue
    /\ analysisResult' = NoValue /\ currentFileName' = NoValue /\ file' = NoValue
    /\ isLoading' = FALSE /\ error' = NoValue
    /\ actualsInput' = EmptyObject /\ isClient' = FALSE
    /\ afpTrendData' = <<>> /\ cocomoEffortTrendData' = <<>>
    /\ afpAccuracyData' = <<>> /\ cocomoEffortAccuracyData' = <<>>
    /\ afpAccuracyMetrics' = NoValue /\ cocomoAccuracyMetrics' = NoValue
    /\ UNCHANGED <<callVars, now, history>>

\* the history page is opened: HistoryList mounts and its effect runs
OpenHistory ==
    /\ OnPages /\ page # "history"
    /\ page' = "history"
    /\ actualsInput' = InitialActuals(history, 1, EmptyObject)
    /\ isClient' = TRUE
    /\ formValues' = EmptyObject /\ formHistory' = EmptyObject
    /\ fpFormResult' = NoValue /\ cocomoFormResult' = NoValue
    /\ analysisResult' = NoValue /\ currentFileName' = NoValue /\ file' = NoValue
    /\ isLoading' = FALSE /\ error' = NoValue
    /\ afpTrendData' = <<>> /\ cocomoEffortTrendData' = <<>>
    /\ afpAccuracyData' = <<>> /\ cocomoEffortAccuracyData' = <<>>
    /\ afpAccuracyMetrics' = NoValue /\ cocomoAccuracyMetrics' = NoValue
    /\ UNCHANGED <<callVars, now, history>>

\* the comparison page is opened: ComparisonPage mounts
OpenComparison ==
    /\ OnPages /\ page # "comparison"
    /\ page' = "comparison"
    /\ formValues' = EmptyObject /\ formHistory' = EmptyObject
    /\ fpFormResult' = NoValue /\ cocomoFormResult' = NoValue
    /\ analysisResult' = NoValue /\ currentFileName' = NoValue /\ file' = NoValue
    /\ isLoading' = FALSE /\ error' = NoValue
    /\ actualsInput' = EmptyObject /\ isClient' = FALSE
    /\ afpTrendData' = <<>> /\ cocomoEffortTrendData' = <<>>
    /\ afpAccuracyData' = <<>> /\ cocomoEffortAccuracyData' = <<>>
    /\ afpAccuracyMetrics' = NoValue /\ cocomoAccuracyMetrics' = NoValue
    /\ UNCHANGED <<callVars, now, history>>

\* the effects of ComparisonPage: isClient is set, and with it the second
\* effect derives the trends, the series and the metrics from the history
ComparisonEffects ==
    /\ OnPages /\ page = "comparison" /\ ~isClient
    /\ isClient' = TRUE
    /\ IF Len(history) > 0
       THEN /\ afpTrendData' = TrendOf(history, "FP")
            /\ afpAccuracyData' = AccuracyOf(history, "FP")
            /\ afpAccuracyMetrics' = AccuracyMetricsOf(AccuracyOf(history, "FP"))
            /\ cocomoEffortTrendData' = TrendOf(history, "COCOMO")
            /\ cocomoEffortAccuracyData' = AccuracyOf(history, "COCOMO")
            /\ cocomoAccuracyMetrics' = AccuracyMetricsOf(AccuracyOf(history, "COCOMO"))
       ELSE UNCHANGED <<afpTrendData, cocomoEffortTrendData, afpAccuracyData,
                        cocomoEffortAccuracyData, afpAccuracyMetrics, cocomoAccuracyMetrics>>
    /\ UNCHANGED <<callVars, now, page, history, formVars, actualsInput>>

\* a count is typed into its field of FpCalculatorForm
FpCountChange ==
    /\ op = "forms" /\ page = "fp-calculator"
    /\ \E name \in FpFields : \E value \in CountTexts(name) :
        formValues' = [formValues EXCEPT ![name] = value]
    /\ formValues' # formValues
    /\ UNCHANGED <<callVars, now, page, history, formHistory, fpFormResult, cocomoFormResult,
                   analysisResult, currentFileName, file, isLoading, error, actualsInput,
                   comparisonVars>>

\* a rating is chosen in its Select of FpCalculatorForm
FpRatingChange ==
    /\ op = "forms" /\ page = "fp-calculator"
    /\ \E id \in GscIds : \E val \in RatingChoices(id) :
        formValues' = [formValues EXCEPT ![id] = parseInt(String(Num(val)))]
    /\ formValues' # formValues
    /\ UNCHANGED <<callVars, now, page, history, formHistory, fpFormResult, cocomoFormResult,
                   analysisResult, currentFileName, file, isLoading, error, actualsInput,
                   comparisonVars>>

\* FpCalculatorForm.onSubmit
FpOnSubmit ==
    /\ OnPages /\ page = "fp-calculator"
    /\ \E formData \in FpSubmitted :
        fpFormResult' = calculateFunctionPoints(formData.fp, formData.gsc)
    /\ UNCHANGED <<callVars, now, page, history, formValues, formHistory,
                   cocomoFormResult, analysisResult,
                   currentFileName, file, isLoading, error, actualsInput, comparisonVars>>

\* FpCalculatorForm.handleSaveToHistory: the clock is read twice, for the id
\* and for the timestamp, and may advance in between
FpHandleSaveToHistory ==
    /\ OnPages /\ page = "fp-calculator"
    /\ fpFormResult # NoValue
    /\ Len(OwnHistory("fp")) < MaxEntries
    /\ \E timestamp \in {now, now + 1} :
        /\ timestamp <= MaxClock
        /\ SetHistory("fp", <<HistoryEntry(ToString(now), "FP", timestamp, fpFormResult)>>
                            \o OwnHistory("fp"))
        /\ now' = timestamp
    /\ UNCHANGED <<callVars, page, formValues, fpFormResult, cocomoFormResult, analysisResult,
                   currentFileName, file, isLoading, error, actualsInput, comparisonVars>>

\* a size is typed into the field of CocomoForm
CocomoKslocChange ==
    /\ op = "forms" /\ page = "cocomo-estimator"
    /\ \E value \in KslocTexts : formValues' = [formValues EXCEPT !.ksloc = value]
    /\ formValues' # formValues
    /\ UNCHANGED <<callVars, now, page, history, formHistory, fpFormResult, cocomoFormResult,
                   analysisResult, currentFileName, file, isLoading, error, actualsInput,
                   comparisonVars>>

\* a level is chosen in the Select of a factor of CocomoForm
CocomoLevelChange ==
    /\ op = "forms" /\ page = "cocomo-estimator"
    /\ \E i \in FactorIndexes : \E l \in ChosenLevels \cup {3} :
        /\ \A j \in FactorIndexes \ {i} :      \* one factor at a time is off Nominal
            formValues[COCOMO_SCALE_FACTORS[j].id] = CocomoDefaultValues[COCOMO_SCALE_FACTORS[j].id]
        /\ formValues' = [formValues EXCEPT ![COCOMO_SCALE_FACTORS[i].id] = LevelValue(i, l)]
    /\ formValues' # formValues
    /\ UNCHANGED <<callVars, now, page, history, formHistory, fpFormResult, cocomoFormResult,
                   analysisResult, currentFileName, file, isLoading, error, actualsInput,
                   comparisonVars>>

\* CocomoForm.onSubmit
CocomoOnSubmit ==
    /\ OnPages /\ page = "cocomo-estimator"
    /\ \E formData \in CocomoSubmitted :
        cocomoFormResult' = calculateCocomoII(formData)
    /\ UNCHANGED <<callVars, now, page, history, formValues, formHistory,
                   fpFormResult, analysisResult,
                   currentFileName, file, isLoading, error, actualsInput, comparisonVars>>

\* CocomoForm.handleSaveToHistory
CocomoHandleSaveToHistory ==
    /\ OnPages /\ page = "cocomo-estimator"
    /\ cocomoFormResult # NoValue
    /\ Len(history) < MaxEntries
    /\ \E timestamp \in {now, now + 1} :
        /\ timestamp <= MaxClock
        /\ history' = <<HistoryEntry(ToString(now), "COCOMO", timestamp, cocomoFormResult)>>
                      \o history
        /\ now' = timestamp
    /\ UNCHANGED <<callVars, page, formVars, actualsInput, comparisonVars>>

\* FileUploadForm.handleFileChange: a file is chosen, or the choice is cleared
HandleFileChange ==
    /\ OnPages /\ page \in {"fp-calculator", "file-analyzer"}
    /\ currentFileName' \in FileNames \cup {NoValue}
    /\ currentFileName' # currentFileName
    /\ UNCHANGED <<callVars, now, page, history, formValues, formHistory,
                   fpFormResult, cocomoFormResult,
                   analysisResult, file, isLoading, error, actualsInput, comparisonVars>>

\* a submit that starts a reading while a file is being read
UploadOnSubmitWhileLoading ==
    /\ OnPages /\ page \in {"fp-calculator", "file-analyzer"}
    /\ currentFileName # NoValue
    /\ isLoading' = TRUE
    /\ error' = NoValue
    /\ analysisResult' = NoValue
    /\ file' = currentFileName
    /\ UNCHANGED <<callVars, now, page, history, formValues, formHistory,
                   fpFormResult, cocomoFormResult,
                   currentFileName, actualsInput, comparisonVars>>

\* FileUploadForm.onSubmit up to the start of the reading (the button is
\* disabled while isLoading)
UploadOnSubmit ==
    /\ OnPages /\ page \in {"fp-calculator", "file-analyzer"}
    /\ currentFileName # NoValue
    /\ ~isLoading
    /\ isLoading' = TRUE
    /\ error' = NoValue
    /\ analysisResult' = NoValue
    /\ file' = currentFileName
    /\ UNCHANGED <<callVars, now, page, history, formValues, formHistory,
                   fpFormResult, cocomoFormResult,
                   currentFileName, actualsInput, comparisonVars>>

\* FileUploadForm.onSubmit when the reading cannot be started: the handler
\* runs to its catch
UploadOnSubmitThrows ==
    /\ OnPages /\ page \in {"fp-calculator", "file-analyzer"}
    /\ currentFileName # NoValue
    /\ ~isLoading
    /\ isLoading' = FALSE
    /\ error' = Str("An unexpected error occurred")
    /\ analysisResult' = NoValue
    /\ file' = currentFileName
    /\ UNCHANGED <<callVars, now, page, history, formValues, formHistory,
                   fpFormResult, cocomoFormResult,
                   currentFileName, actualsInput, comparisonVars>>

\* reader.onload with analyzeDocument resolved; on the FP calculator page
\* onAnalysisComplete hands the suggestions to FpCalculatorForm, whose
\* effects reset its result
AnalysisResolved ==
    /\ OnPages /\ isLoading
    /\ analysisResult' \in AnalysisResults
    /\ isLoading' = FALSE
    /\ fpFormResult' = IF page = "fp-calculator" THEN NoValue ELSE fpFormResult
    /\ formValues' =
        IF op = "forms" /\ page = "fp-calculator"
        THEN WithGscSuggestions(
                 WithFpSuggestions(formValues, analysisResult'.potentialFunctionPoints),
                 Field(analysisResult', "gscRatings"))
        ELSE formValues
    /\ UNCHANGED <<callVars, now, page, history, formHistory, cocomoFormResult,
                   currentFileName, file,
                   error, actualsInput, comparisonVars>>

\* reader.onload with analyzeDocument rejected
AnalysisRejected ==
    /\ OnPages /\ isLoading
    /\ error' = Str("AI analysis failed")
    /\ isLoading' = FALSE
    /\ UNCHANGED <<callVars, now, page, history, formValues, formHistory,
                   fpFormResult, cocomoFormResult,
                   analysisResult, currentFileName, file, actualsInput, comparisonVars>>

\* reader.onerror
ReaderError ==
    /\ OnPages /\ isLoading
    /\ error' = Str("Failed to read the file.")
    /\ isLoading' = FALSE
    /\ UNCHANGED <<callVars, now, page, history, formValues, formHistory,
                   fpFormResult, cocomoFormResult,
                   analysisResult, currentFileName, file, actualsInput, comparisonVars>>

\* FileUploadForm.handleSaveToHistory of the file analyzer page
UploadHandleSaveToHistory ==
    /\ OnPages /\ page = "file-analyzer"
    /\ analysisResult # NoValue /\ currentFileName # NoValue
    /\ Len(history) < MaxEntries
    /\ \E timestamp \in {now, now + 1} :
        /\ timestamp <= MaxClock
        /\ history' = <<HistoryEntry(ToString(now), "ANALYSIS", timestamp,
                            [fileName |-> currentFileName, result |-> analysisResult])>>
                      \o history
        /\ now' = timestamp
    /\ UNCHANGED <<callVars, page, formVars, actualsInput, comparisonVars>>

\* FileUploadForm.handleSaveToHistory of the FP calculator page
UploadHandleSaveAsFp ==
    /\ OnPages /\ page = "fp-calculator"
    /\ analysisResult # NoValue /\ currentFileName # NoValue
    /\ Len(OwnHistory("upload")) < MaxEntries
    /\ \E timestamp \in {now, now + 1} :
        /\ timestamp <= MaxClock
        /\ SetHistory("upload", <<HistoryEntry(ToString(now), "FP", timestamp,
                                      AnalysisHistoryData(analysisResult, currentFileName))>>
                                \o OwnHistory("upload"))
        /\ now' = timestamp
    /\ UNCHANGED <<callVars, page, formValues, fpFormResult, cocomoFormResult, analysisResult,
                   currentFileName, file, isLoading, error, actualsInput, comparisonVars>>

\* HistoryList.handleActualInputChange, from the field of an entry on screen
HandleActualInputChange ==
    /\ OnPages /\ page = "history"
    /\ \E i \in 1..Len(history) : \E field \in ActualFields(history[i].type) :
       \E value \in ActualTexts(field) :
        LET entryId == history[i].id
        IN  actualsInput' =
                Spread(actualsInput,
                       entryId :> Spread(IF entryId \in DOMAIN actualsInput
                                         THEN actualsInput[entryId] ELSE EmptyObject,
                                         field :> value))
    /\ actualsInput' # actualsInput
    /\ UNCHANGED <<callVars, now, page, history, formVars, comparisonVars>>

\* HistoryList.handleSaveActuals, from the button of an entry on screen; the
\* list on screen was sorted in place; the effect follows the new history
HandleSaveActuals ==
    /\ OnPages /\ page = "history"
    /\ \E i \in 1..Len(history) :
        LET entryId == history[i].id
            type == history[i].type
            prevHistory == SortByTimestamp(history, TRUE)
        IN  /\ type \in {"FP", "COCOMO"}
            /\ IF entryId \in DOMAIN actualsInput
               THEN /\ history' = [j \in 1..Len(prevHistory) |->
                                      WithActuals(prevHistory[j], entryId, type,
                                                  actualsInput[entryId])]
                    /\ actualsInput' = InitialActuals(history', 1, EmptyObject)
               ELSE UNCHANGED <<history, actualsInput>>
    /\ UNCHANGED <<callVars, now, page, formVars, comparisonVars>>

\* HistoryList.handleClearHistory
HandleClearHistory ==
    /\ OnPages /\ page = "history"
    /\ history' = <<>>
    /\ actualsInput' = EmptyObject
    /\ UNCHANGED <<callVars, now, page, formVars, comparisonVars>>

\* a delete that removes the entry of the button only
HandleDeleteOneEntry ==
    /\ OnPages /\ page = "history"
    /\ \E i \in 1..Len(history) :
        LET prevHistory == SortByTimestamp(history, TRUE)
        IN  /\ history' = SubSeq(prevHistory, 1, i - 1) \o SubSeq(prevHistory, i + 1, Len(prevHistory))
            /\ actualsInput' = InitialActuals(history', 1, EmptyObject)
    /\ UNCHANGED <<callVars, now, page, formVars, comparisonVars>>

\* HistoryList.handleDeleteEntry, from the button of an entry on screen
HandleDeleteEntry ==
    /\ OnPages /\ page = "history"
    /\ \E i \in 1..Len(history) :
        LET id == history[i].id
            prevHistory == SortByTimestamp(history, TRUE)
            Kept(entry) == entry.id # id
        IN  /\ history' = SelectSeq(prevHistory, Kept)
            /\ actualsInput' = InitialActuals(history', 1, EmptyObject)
    /\ UNCHANGED <<callVars, now, page, formVars, comparisonVars>>

Init == InitFP \/ InitCocomo \/ InitMetrics \/ InitPages

Next ==
    \/ CallFP \/ CallCocomo \/ CallMetrics
    \/ FpCountChange \/ FpRatingChange \/ CocomoKslocChange \/ CocomoLevelChange
    \/ Tick \/ OpenForms \/ OpenHistory \/ OpenComparison \/ ComparisonEffects
    \/ FpOnSubmit \/ FpHandleSaveToHistory
    \/ CocomoOnSubmit \/ CocomoHandleSaveToHistory
    \/ HandleFileChange \/ UploadOnSubmit \/ UploadOnSubmitThrows
    \/ AnalysisResolved \/ AnalysisRejected \/ ReaderError
    \/ UploadHandleSaveToHistory \/ UploadHandleSaveAsFp
    \/ HandleActualInputChange \/ HandleSaveActuals
    \/ HandleClearHistory \/ HandleDeleteEntry

Spec == Init /\ [][Next]_vars

\* the calls of one function only
SpecFP == InitFP /\ [][CallFP]_vars
SpecCocomo == InitCocomo /\ [][CallCocomo]_vars
SpecCocomoView == InitCocomoView /\ [][CallCocomo]_vars
SpecMetrics == InitMetrics /\ [][CallMetrics]_vars
SpecMetricsFine == InitMetricsFine /\ [][CallMetrics]_vars

\* the calls of the three functions, without the pages
InitCalls == InitFP \/ InitCocomo \/ InitMetrics

NextCalls == CallFP \/ CallCocomo \/ CallMetrics

SpecCalls == InitCalls /\ [][NextCalls]_vars

\* the pages only
NextPages ==
    \/ Tick \/ OpenForms \/ OpenHistory \/ OpenComparison \/ ComparisonEffects
    \/ FpOnSubmit \/ FpHandleSaveToHistory
    \/ CocomoOnSubmit \/ CocomoHandleSaveToHistory
    \/ HandleFileChange \/ UploadOnSubmit \/ UploadOnSubmitThrows
    \/ AnalysisResolved \/ AnalysisRejected \/ ReaderError
    \/ UploadHandleSaveToHistory \/ UploadHandleSaveAsFp
    \/ HandleActualInputChange \/ HandleSaveActuals
    \/ HandleClearHistory \/ HandleDeleteEntry

SpecPages == InitPages /\ [][NextPages]_vars

\* the upload form of the FP calculator page, with two files to choose from
InitUpload ==
    /\ op = "forms" /\ pc = "idle"
    /\ fpInputs = NotCalled /\ gscInputs = NotCalled /\ fpResult = NotCalled
    /\ cocomoInputs = NotCalled /\ cocomoResult = NotCalled
    /\ data = NotCalled /\ metrics = NotCalled /\ locals = NotCalled
    /\ now = 1 /\ page = "fp-calculator" /\ history = <<>>
    /\ formValues = DefaultValues("fp-calculator")
    /\ formHistory = HistoryCopies("fp-calculator")
    /\ fpFormResult = NoValue /\ cocomoFormResult = NoValue
    /\ analysisResult = NoValue /\ currentFileName = NoValue /\ file = NoValue
    /\ isLoading = FALSE /\ error = NoValue
    /\ actualsInput = EmptyObject /\ isClient = FALSE
    /\ afpTrendData = <<>> /\ cocomoEffortTrendData = <<>>
    /\ afpAccuracyData = <<>> /\ cocomoEffortAccuracyData = <<>>
    /\ afpAccuracyMetrics = NoValue /\ cocomoAccuracyMetrics = NoValue

NextUpload ==
    \/ Tick \/ HandleFileChange \/ UploadOnSubmit \/ UploadOnSubmitThrows
    \/ AnalysisResolved \/ AnalysisRejected \/ ReaderError
    \/ UploadHandleSaveAsFp

SpecUpload == InitUpload /\ [][NextUpload]_vars

\* the FP calculator page with the values of its fields, a file chosen
InitFpForm ==
    /\ op = "forms" /\ pc = "idle"
    /\ fpInputs = NotCalled /\ gscInputs = NotCalled /\ fpResult = NotCalled
    /\ cocomoInputs = NotCalled /\ cocomoResult = NotCalled
    /\ data = NotCalled /\ metrics = NotCalled /\ locals = NotCalled
    /\ now = 1 /\ page = "fp-calculator" /\ history = <<>>
    /\ formValues = DefaultValues("fp-calculator")
    /\ formHistory = HistoryCopies("fp-calculator")
    /\ fpFormResult = NoValue /\ cocomoFormResult = NoValue
    /\ analysisResult = NoValue /\ currentFileName \in FileNames /\ file = NoValue
    /\ isLoading = FALSE /\ error = NoValue
    /\ actualsInput = EmptyObject /\ isClient = FALSE
    /\ afpTrendData = <<>> /\ cocomoEffortTrendData = <<>>
    /\ afpAccuracyData = <<>> /\ cocomoEffortAccuracyData = <<>>
    /\ afpAccuracyMetrics = NoValue /\ cocomoAccuracyMetrics = NoValue

NextFpForm ==
    \/ FpCountChange \/ FpRatingChange \/ FpOnSubmit
    \/ UploadOnSubmit \/ AnalysisResolved

SpecFpForm == InitFpForm /\ [][NextFpForm]_vars

\* the FP calculator page with its two forms, each saving from the history
\* it holds
InitSaves ==
    /\ op = "saves" /\ pc = "idle"
    /\ fpInputs = NotCalled /\ gscInputs = NotCalled /\ fpResult = NotCalled
    /\ cocomoInputs = NotCalled /\ cocomoResult = NotCalled
    /\ data = NotCalled /\ metrics = NotCalled /\ locals = NotCalled
    /\ now = 1 /\ page = "fp-calculator" /\ history = <<>>
    /\ formValues = DefaultValues("fp-calculator")
    /\ formHistory = HistoryCopies("fp-calculator")
    /\ fpFormResult = NoValue /\ cocomoFormResult = NoValue
    /\ analysisResult = NoValue /\ currentFileName = Str("requirements.pdf") /\ file = NoValue
    /\ isLoading = FALSE /\ error = NoValue
    /\ actualsInput = EmptyObject /\ isClient = FALSE
    /\ afpTrendData = <<>> /\ cocomoEffortTrendData = <<>>
    /\ afpAccuracyData = <<>> /\ cocomoEffortAccuracyData = <<>>
    /\ afpAccuracyMetrics = NoValue /\ cocomoAccuracyMetrics = NoValue

NextSaves ==
    \/ Tick \/ FpOnSubmit \/ FpHandleSaveToHistory
    \/ UploadOnSubmit \/ AnalysisResolved \/ UploadHandleSaveAsFp

SpecSaves == InitSaves /\ [][NextSaves]_vars

\* the COCOMO estimator page with the values of its fields
InitCocomoForm ==
    /\ op = "forms" /\ pc = "idle"
    /\ fpInputs = NotCalled /\ gscInputs = NotCalled /\ fpResult = NotCalled
    /\ cocomoInputs = NotCalled /\ cocomoResult = NotCalled
    /\ data = NotCalled /\ metrics = NotCalled /\ locals = NotCalled
    /\ now = 1 /\ page = "cocomo-estimator" /\ history = <<>>
    /\ formValues = CocomoDefaultValues /\ formHistory = EmptyObject
    /\ fpFormResult = NoValue /\ cocomoFormResult = NoValue
    /\ analysisResult = NoValue /\ currentFileName = NoValue /\ file = NoValue
    /\ isLoading = FALSE /\ error = NoValue
    /\ actualsInput = EmptyObject /\ isClient = FALSE
    /\ afpTrendData = <<>> /\ cocomoEffortTrendData = <<>>
    /\ afpAccuracyData = <<>> /\ cocomoEffortAccuracyData = <<>>
    /\ afpAccuracyMetrics = NoValue /\ cocomoAccuracyMetrics = NoValue

NextCocomoForm == CocomoKslocChange \/ CocomoLevelChange \/ CocomoOnSubmit

SpecCocomoForm == InitCocomoForm /\ [][NextCocomoForm]_vars

\* the history page only
NextHistoryPage ==
    \/ HandleActualInputChange \/ HandleSaveActuals
    \/ HandleClearHistory \/ HandleDeleteEntry

SpecHistoryPage == InitHistoryPage /\ [][NextHistoryPage]_vars

FpDone == op = "fp" /\ pc = "done"
CocomoDone == op = "cocomo" /\ pc = "done"
MetricsDone == op = "metrics" /\ pc = "done"

(***************************************************************************)
(* Properties of calculateFunctionPoints                                   *)
(***************************************************************************)
RECURSIVE SumOver(_, _)
\* the sum of f[x] over the x in the finite set S of the domain of f
SumOver(S, f) ==
    IF S = {} THEN 0
    ELSE LET x == CHOOSE y \in S : TRUE
         IN  f[x] + SumOver(S \ {x}, f)

\* the count in a field, when it is a non-negative integer
CountOf(fp, f) == fp[f].v \div Scale
NonNegativeIntegerCounts(fp) == \A f \in FpFields : IsInteger(fp[f]) /\ fp[f].v >= 0

\* every rating given for one of the fourteen ids is an integer in 0..5
RatingsInRange(gsc) ==
    \A id \in GscIds \cap DOMAIN gsc :
        IsInteger(gsc[id]) /\ gsc[id].v >= 0 /\ gsc[id].v <= 5 * Scale

\* the sum of the fourteen ratings, a missing one counting as 0
RatingSum(gsc) ==
    SumOver(GscIds, [id \in GscIds |-> IF id \in DOMAIN gsc THEN gsc[id].v \div Scale ELSE 0])

AllCounts(fp, n) == \A f \in FpFields : fp[f] = Num(n)
AllRatings(gsc, r) == \A id \in GscIds : id \in DOMAIN gsc /\ gsc[id] = Num(r)

\* C1: for non-negative integer counts and any GSC ratings the returned ufp is
\* 4*ei + 5*eo + 4*eq + 10*ilf + 7*eif; ten of each gives 300
C1_UfpIsWeightedSum ==
    (FpDone /\ NonNegativeIntegerCounts(fpInputs)) =>
        /\ fpResult.ufp = Num(4 * CountOf(fpInputs, "ei") + 5 * CountOf(fpInputs, "eo")
                              + 4 * CountOf(fpInputs, "eq") + 10 * CountOf(fpInputs, "ilf")
                              + 7 * CountOf(fpInputs, "eif"))
        /\ AllCounts(fpInputs, 10) => fpResult.ufp = Num(300)

\* a call with the largest count in ilf only, and ratings that are not all in range
C1_Witness ==
    /\ FpDone
    /\ fpInputs.ilf = Num(MaxCount) /\ fpInputs.eif = Num(0) /\ fpInputs.ei = Num(1)
    /\ fpResult.ufp = Num(10 * MaxCount + 4 + 5 * CountOf(fpInputs, "eo")
                          + 4 * CountOf(fpInputs, "eq"))

\* C2: when the ratings of the fourteen ids are integers in 0..5 (a missing id
\* counting as 0) the returned vaf is 0.65 + 0.01 * their sum, which lies in
\* [0.65, 1.35]; all 0 gives 0.65 and all 5 gives 1.35
C2_VafFromRatings ==
    (FpDone /\ RatingsInRange(gscInputs)) =>
        /\ fpResult.vaf = Centi(65 + RatingSum(gscInputs))
        /\ fpResult.vaf.v >= Centi(65).v /\ fpResult.vaf.v <= Centi(135).v
        /\ AllRatings(gscInputs, 0) => fpResult.vaf = Centi(65)
        /\ AllRatings(gscInputs, 5) => fpResult.vaf = Centi(135)

\* a call with every rating 5 except the last, which is lower and not 0
C2_Witness ==
    /\ FpDone /\ RatingsInRange(gscInputs)
    /\ \A i \in 1..(Len(GSC_FACTORS) - 1) :
            GSC_FACTORS[i] \in DOMAIN gscInputs /\ gscInputs[GSC_FACTORS[i]] = Num(5)
    /\ GSC_FACTORS[Len(GSC_FACTORS)] \in DOMAIN gscInputs
    /\ gscInputs[GSC_FACTORS[Len(GSC_FACTORS)]] = Num(2)
    /\ fpResult.vaf = Centi(132)

\* C3: for non-negative integer counts and integer ratings in 0..5 the returned
\* afp differs from the returned ufp times the returned vaf by less than 0.01;
\* ten of each count with all ratings 0 gives 195.00
C3_AfpIsUfpTimesVaf ==
    (FpDone /\ NonNegativeIntegerCounts(fpInputs) /\ RatingsInRange(gscInputs)) =>
        /\ IsFin(fpResult.afp)
        /\ Abs(fpResult.afp.v - NMul(fpResult.ufp, fpResult.vaf).v) < Cent
        /\ (AllCounts(fpInputs, 10) /\ AllRatings(gscInputs, 0)) => fpResult.afp = Num(195)

\* a call with one of each count and a single rating of 3: 30 * 0.68 = 20.40
C3_Witness ==
    /\ FpDone /\ NonNegativeIntegerCounts(fpInputs) /\ RatingsInRange(gscInputs)
    /\ AllCounts(fpInputs, 1)
    /\ fpResult.vaf = Centi(68)
    /\ fpResult.afp = Centi(2040)

RECURSIVE PassThroughSum(_, _)
\* the sum of the ratings given under the ids of S, each as it is
PassThroughSum(S, gsc) ==
    IF S = {} THEN Zero
    ELSE LET id == CHOOSE y \in S : TRUE
         IN  NAdd(IF id \in DOMAIN gsc THEN gsc[id] ELSE Zero, PassThroughSum(S \ {id}, gsc))

\* C4: tdi is the sum over the fourteen ids of the rating supplied, 0 standing in
\* only for a missing id: an out-of-range or NaN rating is added as it is, and
\* entries under other ids change nothing
C4_TdiPassesRatingsThrough ==
    FpDone => locals.tdi = PassThroughSum(GscIds, gscInputs)

(***************************************************************************)
(* Properties of calculateCocomoII                                         *)
(***************************************************************************)
\* the entries of a scaleFactors object, without their order
EntrySet(sf) == {sf[i] : i \in 1..Len(sf)}

\* the sum of the values of all entries, in millionths
EntrySum(sf) == SumOver(EntrySet(sf), [e \in EntrySet(sf) |-> e.value.v])

KnownIds == {COCOMO_SCALE_FACTORS[k].id : k \in FactorIndexes}

C6_EffortAndDevTime ==
    CocomoDone =>
        LET sum == EntrySum(cocomoInputs.scaleFactors)
            B == Fin(Centi(91).v + sum \div 100)
            F == Fin(Centi(28).v + sum \div 500)
            effort == NMul(Centi(294), Pow(cocomoInputs.ksloc, B))
        IN  /\ locals.B = B
            /\ locals.F = F
            /\ cocomoResult.effort = ToFixed2(effort)
            /\ cocomoResult.devTime = ToFixed2(NMul(Centi(367), Pow(effort, F)))

\* a call where the rounded effort would give another devTime
C6_Witness ==
    /\ CocomoDone
    /\ cocomoInputs.ksloc.v > 0
    /\ Len(cocomoInputs.scaleFactors) = 5
    /\ cocomoResult.effort # locals.effort
    /\ cocomoResult.devTime # ToFixed2(NMul(Centi(367), Pow(cocomoResult.effort, locals.F)))

\* the values the claim lists as Nominal, in hundredths
ListedNominal == [PREC |-> 372, FLEX |-> 304, RESL |-> 424, TEAM |-> 329, PMAT |-> 468]

\* a finished call with ksloc = 10 and exactly the five factors at the listed values
NominalCall ==
    /\ CocomoDone
    /\ cocomoInputs.ksloc = Num(10)
    /\ EntrySet(cocomoInputs.scaleFactors)
         = {[id |-> id, value |-> Centi(ListedNominal[id])] : id \in DOMAIN ListedNominal}

\* C7 as stated: for ksloc = 10 and the five Nominal values the sum is 19.97,
\* B is 1.1097 and the effort is about 37.87 (to within 0.05)
C7_NominalAsStated ==
    NominalCall =>
        /\ locals.sumOfSFExponents = Centi(1997)
        /\ locals.B = Fin(1109700)
        /\ Abs(cocomoResult.effort.v - Centi(3787).v) <= 5 * Cent

\* C7 amended: for ksloc = 10 and the five Nominal values the sum is 18.97,
\* B is 1.0997 and the returned effort is 36.99
C7_NominalEffort ==
    NominalCall =>
        /\ locals.sumOfSFExponents = Centi(1897)
        /\ locals.B = Fin(1099700)
        /\ cocomoResult.effort = Centi(3699)

\* the Nominal call, with the table's own Nominal column
C7_Witness ==
    /\ NominalCall
    /\ \A k \in FactorIndexes :
          ListedNominal[COCOMO_SCALE_FACTORS[k].id] = COCOMO_SCALE_FACTORS[k].values[3]
    /\ cocomoResult.effort = Centi(3699)

PositiveB == IsFin(locals.B) /\ locals.B.v > 0

C9_InputsEchoed ==
    [][/\ (op = "fp" /\ pc = "call" /\ pc' = "done") =>
             /\ fpResult'.inputs = fpInputs /\ fpResult'.gsc = gscInputs
             /\ fpInputs' = fpInputs /\ gscInputs' = gscInputs
       /\ (op = "cocomo" /\ pc = "call" /\ pc' = "done") =>
             /\ cocomoResult'.inputs = cocomoInputs
             /\ cocomoInputs' = cocomoInputs]_vars

\* a result that echoes a NaN rating, a missing id and an unknown id
C9_Witness ==
    /\ FpDone
    /\ fpResult.gsc = gscInputs
    /\ "unknownFactor" \in DOMAIN fpResult.gsc
    /\ \E id \in GscIds : id \in DOMAIN fpResult.gsc /\ IsNaN(fpResult.gsc[id])

AllEstimatesExact(d) == \A i \in 1..Len(d) : d[i].estimated = d[i].actual

\* C10: calculateMAE and calculateRMSE return null exactly for the empty list,
\* calculateR2Score returns null for the empty list, and a non-empty list whose
\* estimates all equal their actuals gives MAE 0 and RMSE 0
C10_NullOnlyForNoData ==
    MetricsDone =>
        /\ (metrics.mae = Null) <=> (Len(data) = 0)
        /\ (metrics.rmse = Null) <=> (Len(data) = 0)
        /\ Len(data) = 0 => metrics.r2 = Null
        /\ (Len(data) > 0 /\ AllEstimatesExact(data)) =>
              metrics.mae = DZero /\ metrics.rmse = DZero

\* two exact estimates of different actuals
C10_Witness ==
    /\ MetricsDone
    /\ Len(data) = 2 /\ AllEstimatesExact(data) /\ data[1].actual # data[2].actual
    /\ metrics.mae = DZero /\ metrics.rmse = DZero

(***************************************************************************)
(* Properties of the accuracy metrics.  What a metric should be is worked  *)
(* out exactly, in integers, from the data points counted in tenths.       *)
(***************************************************************************)
\* the number of tenths that the data value x was written as
TenthsOf(x) == CHOOSE t \in AllTenths : TenthsTable[t] = x

ActualTenths(d) == [i \in 1..Len(d) |-> TenthsOf(d[i].actual)]
ErrorTenths(d) == [i \in 1..Len(d) |-> TenthsOf(d[i].actual) - TenthsOf(d[i].estimated)]

\* the sum of |actual - estimated|, in tenths
SumAbsTenths(d) == SumOver(1..Len(d), [i \in 1..Len(d) |-> Abs(ErrorTenths(d)[i])])

\* the sum of (actual - estimated)^2, in hundredths
SumSqTenths(d) == SumOver(1..Len(d), [i \in 1..Len(d) |-> ErrorTenths(d)[i] * ErrorTenths(d)[i]])

\* n times the sum of (actual - mean of the actuals)^2, in hundredths
SpreadOfActuals(d) ==
    LET A == ActualTenths(d)
        S == SumOver(1..Len(d), A)
    IN  Len(d) * SumOver(1..Len(d), [i \in 1..Len(d) |-> A[i] * A[i]]) - S * S

\* the integers nearest to p / q, for q > 0: two of them when p / q lies half way
Nearest(p, q) == {k \in {p \div q, p \div q + 1} : 2 * Abs(k * q - p) <= q}

\* the number written with two decimals as k / 100
Hundredths(k) == DDec(k, 100)

AllActualsEqual(d) == \A i, j \in 1..Len(d) : d[i].actual = d[j].actual

\* C11: for a non-empty list whose actual values are all equal, calculateR2Score
\* returns 1.00 when every estimate equals its actual and null otherwise
C11_ConstantActuals ==
    (MetricsDone /\ Len(data) > 0 /\ AllActualsEqual(data)) =>
        metrics.r2 = IF AllEstimatesExact(data) THEN DInt(1) ELSE Null

NearestRoots(ss, n) ==
    {k \in 0..(10 * (MaxVal + 2^MaxLen) + 1) :
        /\ (k = 0 \/ (2 * k - 1) * (2 * k - 1) * n <= 400 * ss)
        /\ 400 * ss <= (2 * k + 1) * (2 * k + 1) * n}

Rotated(d) == IF Len(d) = 0 THEN d ELSE Append(Tail(d), Head(d))

\* the list with its first two points exchanged
FirstTwoSwapped(d) == IF Len(d) < 2 THEN d ELSE <<d[2], d[1]>> \o SubSeq(d, 3, Len(d))

MetricsOf(d) == [mae |-> calculateMAE(d), rmse |-> calculateRMSE(d), r2 |-> calculateR2Score(d)]

\* C15: the three metrics of a list are those of the same list in any other
\* order (every order is reached by moving the first point to the end and
\* exchanging the first two)
C15_OrderIrrelevant ==
    MetricsDone =>
        /\ MetricsOf(Rotated(data)) = metrics
        /\ MetricsOf(FirstTwoSwapped(data)) = metrics

(***************************************************************************)
(* Properties of the history store                                         *)
(***************************************************************************)

\* C16: after any sequence of save, save-actuals, delete and clear-all, no
\* two entries of the history store have the same id.
C16_IdsUnique ==
    \A i, j \in 1..Len(history) : history[i].id = history[j].id => i = j

\* an entry without the actual values its type can carry
WithoutActuals(entry) ==
    [entry EXCEPT !.data = [k \in DOMAIN entry.data \ ActualFields(entry.type) |->
                               entry.data[k]]]

RECURSIVE IsSubsequence(_, _)
IsSubsequence(a, b) ==
    IF a = <<>> THEN TRUE
    ELSE IF b = <<>> THEN FALSE
    ELSE IF Head(a) = Head(b) THEN IsSubsequence(Tail(a), Tail(b))
    ELSE IsSubsequence(a, Tail(b))

\* C17: no operation changes the id, type, timestamp, echoed inputs or
\* estimated values of a stored entry.  A step that adds an entry keeps the
\* stored ones as they are, a step that removes entries keeps the others as
\* they are, and any other step changes at most actualAfp of an FP entry
\* and actualEffort and actualDevTime of a COCOMO entry.
C17_EstimatesFrozen ==
    [][ \/ /\ Len(history') = Len(history) + 1
           /\ Tail(history') = history
        \/ /\ Len(history') = Len(history)
           /\ \A i \in 1..Len(history) :
                WithoutActuals(history'[i]) = WithoutActuals(history[i])
        \/ /\ Len(history') < Len(history)
           /\ IsSubsequence(history', history) ]_vars

\* save-actuals has changed an FP entry and a COCOMO entry
C17_Witness ==
    /\ \E i \in 1..Len(history) :
        /\ history[i].type = "FP"
        /\ Field(history[i].data, "actualAfp") = Num(150)
        /\ history[i].data.afp = Centi(32100)
    /\ \E i \in 1..Len(history) :
        /\ history[i].type = "COCOMO"
        /\ Field(history[i].data, "actualEffort") = Num(150)
        /\ Field(history[i].data, "actualDevTime") = Centi(750)

\* C18: every stored entry has type 'FP' or 'COCOMO' and data of the shape
\* of its type: an FP entry holds an FP result and neither actualEffort nor
\* actualDevTime, a COCOMO entry a COCOMO result and no actualAfp.
C18_TypeDeterminesData ==
    \A i \in 1..Len(history) :
        \/ /\ history[i].type = "FP"
           /\ {"ufp", "vaf", "afp", "inputs", "gsc"} \subseteq DOMAIN history[i].data
           /\ DOMAIN history[i].data \subseteq
                {"ufp", "vaf", "afp", "inputs", "gsc", "actualAfp", "fileName"}
        \/ /\ history[i].type = "COCOMO"
           /\ {"effort", "devTime", "inputs"} \subseteq DOMAIN history[i].data
           /\ DOMAIN history[i].data \subseteq
                {"effort", "devTime", "inputs", "actualEffort", "actualDevTime"}

\* C19: ufp, vaf and afp of every stored FP entry are what
\* calculateFunctionPoints returns for the inputs and gsc of that entry,
\* also for an entry saved from a document analysis and after save-actuals.
C19_FpEntriesAreCalculated ==
    \A i \in 1..Len(history) :
        history[i].type = "FP" =>
            LET d == history[i].data
                calculated == calculateFunctionPoints(d.inputs, d.gsc)
            IN  d.ufp = calculated.ufp /\ d.vaf = calculated.vaf /\ d.afp = calculated.afp

\* an entry saved from an analysis whose estimates differ from the
\* calculation, with an actual value saved for it
C19_Witness ==
    \E i \in 1..Len(history) :
        /\ history[i].type = "FP"
        /\ "fileName" \in DOMAIN history[i].data
        /\ "actualAfp" \in DOMAIN history[i].data
        /\ history[i].data.inputs.ei = Num(0)
        /\ history[i].data.afp = Centi(2730)

\* the positions of the entries of a type that carry the actual value
WithActual(type) ==
    {i \in 1..Len(history) :
        history[i].type = type /\ ActualField(type) \in DOMAIN history[i].data}

\* the position of the entry behind the k-th pair of a series
KthOf(S, k) == CHOOSE i \in S : Cardinality({j \in S : j < i}) = k - 1

SeriesMatches(series, type) ==
    /\ Len(series) = Cardinality(WithActual(type))
    /\ \A k \in 1..Len(series) :
        LET entry == history[KthOf(WithActual(type), k)]
        IN  /\ series[k].estimated = entry.data[EstimateField(type)]
            /\ series[k].actual = entry.data[ActualField(type)]

CountMatches(accuracyMetrics, series) ==
    IF Len(series) = 0 THEN accuracyMetrics = NoValue
    ELSE accuracyMetrics # NoValue /\ accuracyMetrics.count = Len(series)

\* C20: once the comparison page has derived its data, the AFP series holds
\* one pair (afp, actualAfp) for each FP entry with an actualAfp, 0 included,
\* the COCOMO series one pair (effort, actualEffort) for each COCOMO entry
\* with an actualEffort, nothing else, and the count reported with the
\* metrics is the number of pairs.
C20_SeriesFromActuals ==
    (page = "comparison" /\ isClient) =>
        /\ SeriesMatches(afpAccuracyData, "FP")
        /\ SeriesMatches(cocomoEffortAccuracyData, "COCOMO")
        /\ CountMatches(afpAccuracyMetrics, afpAccuracyData)
        /\ CountMatches(cocomoAccuracyMetrics, cocomoEffortAccuracyData)

\* two FP entries, one with the actual 0 and one without an actual
C20_Witness ==
    /\ page = "comparison" /\ isClient
    /\ Len(history) = 2 /\ history[1].type = "FP" /\ history[2].type = "FP"
    /\ Cardinality(WithActual("FP")) = 1
    /\ Len(afpAccuracyData) = 1
    /\ afpAccuracyData[1].actual = Num(0)
    /\ afpAccuracyMetrics.count = 1

(***************************************************************************)
(* Relations between the metrics                                           *)
(***************************************************************************)
\* x <= y for two numbers
DLessEq(x, y) == LET difference == DSub(x, y) IN DIsZero(difference) \/ difference.s = -1

\* C30: for every non-empty list the value returned by calculateMAE is at most
\* the value returned by calculateRMSE
C30_MaeAtMostRmse ==
    (MetricsDone /\ Len(data) > 0) => DLessEq(metrics.mae, metrics.rmse)

(***************************************************************************)
(* The result view of the COCOMO form                                      *)
(***************************************************************************)
\* a result of a size that is not negative: effort and devTime are numbers
ShownResult == CocomoDone /\ IsFin(cocomoResult.effort) /\ IsFin(cocomoResult.devTime)

\* the figure is the quotient p / q to the nearest hundredth
IsQuotient(figure, p, q) == figure \in {Hundredths(k) : k \in Nearest(100 * p, q)}

\* C21: Productivity is ksloc * 1000 / effort and Average Staffing is
\* effort / devTime, shown with two decimals; Productivity is N/A when effort
\* is 0 and Average Staffing is N/A when devTime is 0, and no figure is the
\* result of a division by zero (Infinity or NaN)
C21_ViewGuardsDivision ==
    ShownResult =>
        LET effort == cocomoResult.effort.v \div Cent
            devTime == cocomoResult.devTime.v \div Cent
            sloc == cocomoResult.inputs.ksloc.v \div (Scale \div 1000)
            productivity == Productivity(cocomoResult)
            staffing == AverageStaffing(cocomoResult)
        IN  /\ IF effort = 0 THEN productivity = NotAvailable
               ELSE IsQuotient(productivity, 100 * sloc, effort)
            /\ IF devTime = 0 THEN staffing = NotAvailable
               ELSE IsQuotient(staffing, effort, devTime)
            /\ \A figure \in {productivity, staffing} :
                   figure = NotAvailable \/ DIsFin(figure)

\* a result with effort 0 and devTime 0, for which both figures are N/A
C21_Witness ==
    /\ ShownResult
    /\ cocomoResult.effort = Zero /\ cocomoResult.devTime = Zero
    /\ Productivity(cocomoResult) = NotAvailable
    /\ AverageStaffing(cocomoResult) = NotAvailable

\* the store without the entries of an id
WithoutId(h, id) ==
    LET Kept(entry) == entry.id # id
    IN  SelectSeq(h, Kept)

\* C24: a delete removes from the store exactly the entries with the id of
\* the entry deleted, keeps the other entries in their order and leaves no
\* pending actuals input under that id; clear-all leaves the store and the
\* pending actuals inputs empty.
C24_DeleteAndClear ==
    [][ /\ HandleDeleteEntry =>
            \E i \in 1..Len(history) :
                /\ history' = WithoutId(history, history[i].id)
                /\ history[i].id \notin DOMAIN actualsInput'
        /\ HandleClearHistory =>
            history' = <<>> /\ actualsInput' = EmptyObject ]_vars

\* the history page with two entries of different ids and text typed for
\* both, where a delete removes one entry and its input and keeps the other
C24_Witness ==
    /\ page = "history" /\ Len(history) = 2
    /\ history[1].id # history[2].id
    /\ \A i \in 1..2 : history[i].id \in DOMAIN actualsInput

\* a text that gives no number: none typed, blank, or not the start of a number
GivesNoNumber(text) == text \in {Undefined, Text(<<>>)} \/ IsNaN(parseFloat(text))

\* what save-actuals for the entry at position i leaves of the entry at
\* position j: of another id or another type the entry as it was, else the
\* entry with each actual of its type absent or the number typed
SavedActuals(i, j) ==
    LET entryId == history[i].id
        type == history[i].type
        before == history[j]
        after == history'[j]
    IN  IF before.id # entryId \/ before.type # type THEN after = before
        ELSE /\ WithoutActuals(after) = WithoutActuals(before)
             /\ \A f \in ActualFields(type) :
                    LET text == Field(actualsInput[entryId], f)
                    IN  IF GivesNoNumber(text) THEN f \notin DOMAIN after.data
                        ELSE /\ f \in DOMAIN after.data
                             /\ after.data[f] = parseFloat(text)

\* C26: save-actuals stores no NaN.  An actual whose text is blank or gives
\* no number is absent from the entry afterwards, a value stored before
\* included, and nothing else of the entry changes; without an input for
\* the id the store is unchanged, and so is an entry of the id whose type is
\* not the type requested.
C26_NoNaNActuals ==
    [][ HandleSaveActuals =>
            /\ \E i \in 1..Len(history) :
                IF history[i].id \notin DOMAIN actualsInput THEN history' = history
                ELSE /\ Len(history') = Len(history)
                     /\ \A j \in 1..Len(history) : SavedActuals(i, j)
            /\ \A j \in 1..Len(history') :
                \A f \in ActualFields(history'[j].type) \cap DOMAIN history'[j].data :
                    IsNumber(history'[j].data[f]) /\ ~IsNaN(history'[j].data[f]) ]_vars

\* an FP entry with an actual stored by an earlier save-actuals, and a text
\* that gives no number typed over it
C26_Witness ==
    /\ page = "history"
    /\ \E i \in 1..Len(history) :
        /\ history[i].type = "FP"
        /\ Field(history[i].data, "actualAfp") = Num(150)
        /\ history[i].id \in DOMAIN actualsInput
        /\ Field(actualsInput[history[i].id], "actualAfp") = Text(<<"a", "b", "c">>)

\* the pending text of one actual of an entry: what its field shows
PendingText(input, entry, f) ==
    IF entry.id \in DOMAIN input THEN Field(input[entry.id], f) ELSE Undefined

\* every pending text is the text of the stored actual, and there is none
\* where no actual is stored
InputsAreStored(h, input) ==
    /\ \A i \in 1..Len(h) : \A f \in ActualFields(h[i].type) :
            PendingText(input, h[i], f) =
                IF f \in DOMAIN h[i].data THEN String(h[i].data[f]) ELSE Undefined
    /\ DOMAIN input \subseteq {h[i].id : i \in 1..Len(h)}

\* C29: after every change of the stored history made on the history page
\* the pending actuals input of every entry is the text of the actuals
\* stored for that entry, and empty for an entry without a stored actual.
C29_InputsFollowStore ==
    [][ (page = "history" /\ history' # history) =>
            InputsAreStored(history', actualsInput') ]_vars

\* C28: the file name stored with an FP entry saved from a document
\* analysis is the name of the file under analysis when the result saved
\* was produced, whatever file is selected at the time of the save.
C28_FileNameOfAnalysis ==
    [][ UploadHandleSaveAsFp => history'[1].data.fileName = file ]_vars

\* the two states a submit may end in
Settled ==
    /\ ~isLoading
    /\ \/ analysisResult # NoValue /\ error = NoValue
       \/ analysisResult = NoValue /\ error # NoValue

\* C27: a submit starts only while nothing is loading, and it shows neither
\* a result nor an error while it loads; when it ends, with the analysis
\* resolved or rejected, the file unreadable or an exception thrown, the
\* form shows a result and no error, or an error and no result, and is not
\* loading.
C27_SubmitSettles ==
    [][ /\ UploadOnSubmit => ~isLoading /\ isLoading'
        /\ isLoading' => analysisResult' = NoValue /\ error' = NoValue
        /\ (isLoading /\ isLoading') => file' = file
        /\ (isLoading /\ ~isLoading' /\ page' = page) => Settled'
        /\ UploadOnSubmitThrows => Settled' ]_vars

\* a submit has ended with a result, and another file was chosen since
C27_Witness ==
    /\ Settled /\ analysisResult # NoValue
    /\ file # NoValue /\ file # currentFileName /\ currentFileName # NoValue

TableValues(i) == {Centi(COCOMO_SCALE_FACTORS[i].values[l]) : l \in LevelIndexes}

NominalValue(i) == Centi(COCOMO_SCALE_FACTORS[i].values[3])

\* C25: every call of calculateCocomoII made by the COCOMO form passes
\* ksloc > 0 and exactly the five factors PREC, FLEX, RESL, TEAM, PMAT, each
\* with one of the six values of its level table: the value of its field,
\* which is the Nominal value at first and changes only when the user
\* chooses a level
C25_CocomoFormCalls ==
    /\ \A i \in FactorIndexes : formValues[COCOMO_SCALE_FACTORS[i].id] = NominalValue(i)
    /\ [][ /\ CocomoOnSubmit =>
                LET inputs == cocomoFormResult'.inputs
                IN  /\ IsFin(inputs.ksloc) /\ inputs.ksloc.v > 0
                    /\ DOMAIN inputs.scaleFactors = FactorIndexes
                    /\ \A i \in FactorIndexes :
                        /\ inputs.scaleFactors[i].id = COCOMO_SCALE_FACTORS[i].id
                        /\ inputs.scaleFactors[i].value \in TableValues(i)
                        /\ inputs.scaleFactors[i].value = formValues[COCOMO_SCALE_FACTORS[i].id]
            /\ \A i \in FactorIndexes :
                formValues'[COCOMO_SCALE_FACTORS[i].id] # formValues[COCOMO_SCALE_FACTORS[i].id]
                    => CocomoLevelChange ]_vars

\* a call was made with a size typed by the user, a level chosen for one
\* factor and the Nominal value for the others
C25_Witness ==
    /\ page = "cocomo-estimator" /\ cocomoFormResult # NoValue
    /\ cocomoFormResult.inputs.ksloc = Centi(50)
    /\ cocomoFormResult.inputs.scaleFactors[1].value = Centi(620)
    /\ \A i \in FactorIndexes \ {1} : cocomoFormResult.inputs.scaleFactors[i].value = NominalValue(i)

\* what an analysis suggests for a field of the FP form: Undefined when the
\* count or the rating, or gscRatings as a whole, is left out
SuggestedFor(aiAnalysisResult, name) ==
    IF name \in FpFields
    THEN Field(aiAnalysisResult.potentialFunctionPoints[AiKey(name)], "count")
    ELSE IF Field(aiAnalysisResult, "gscRatings") = Undefined THEN Undefined
    ELSE Field(aiAnalysisResult.gscRatings, name)

\* C22: when an AI suggestion arrives, the FP form sets exactly the count and
\* rating fields whose suggested value is neither null nor missing, leaves
\* every other field at its current value, and clears the displayed result;
\* a result appears again only by calculating, and without a displayed
\* result nothing can be saved
C22_SuggestionsFillTheForm ==
    [][ /\ AnalysisResolved =>
            /\ \A name \in FpFields \cup GscIds :
                LET suggested == SuggestedFor(analysisResult', name)
                IN  formValues'[name] = IF suggested \in {Undefined, NoValue}
                                        THEN formValues[name]
                                        ELSE suggested
            /\ fpFormResult' = NoValue
        /\ (fpFormResult = NoValue /\ fpFormResult' # NoValue) => FpOnSubmit
        /\ fpFormResult = NoValue => ~ENABLED FpHandleSaveToHistory ]_vars

\* an analysis with a count of null and a count left out has arrived after
\* the user typed both counts: they stand, the other counts and the ratings
\* are the suggested ones, and no result is displayed
C22_Witness ==
    /\ page = "fp-calculator" /\ analysisResult = PartialAnalysis
    /\ formValues.ei = Text(<<"7">>) /\ formValues.eo = Text(<<"7">>)
    /\ formValues.ilf = Num(2) /\ formValues.dataCommunications = Num(3)
    /\ fpFormResult = NoValue

====
